---- MODULE Spec2Model ----
(***************************************************************************)
(* Model of the evolution simulation core: trait vectors, the species      *)
(* registry, creatures, the World container and the SimulationEngine.      *)
(*                                                                         *)
(* Numbers: trait values and fractions are in thousandths (0.35 is 350);   *)
(* energy is in whole energy units; simulation time is in seconds.         *)
(***************************************************************************)
EXTENDS Integers, Sequences, FiniteSets, TLC

(***************************************************************************)
(* Bounds of the model.                                                    *)
(***************************************************************************)
\* CONFIG.MAX_CREATURES of the checked configuration (CONFIG is mutable).
MAX_CREATURES == 2
\* CONFIG.INITIAL_CREATURE_COUNT of the checked configuration.
INITIAL_CREATURE_COUNT == 1
\* CONFIG.INITIAL_FOOD_COUNT and CONFIG.MAX_FOOD of the checked configuration.
INITIAL_FOOD_COUNT == 1
MAX_FOOD == 2
\* Number of creature ids the process hands out before the model stops creating.
MaxCreatureIds == 3
\* Simulation clock cap (seconds) and the largest per-tick deltaTime.
MaxTime == 2
MaxDt == 1
\* Number of ticks the model runs after one initialize.
MaxTicks == 3

(***************************************************************************)
(* Small helpers.                                                          *)
(***************************************************************************)
Min(a, b) == IF a < b THEN a ELSE b
Max(a, b) == IF a > b THEN a ELSE b

RECURSIVE SumOver(_, _)
SumOver(S, f) ==
    IF S = {} THEN 0
    ELSE LET x == CHOOSE y \in S : TRUE IN f[x] + SumOver(S \ {x}, f)

RECURSIVE SeqSum(_)
SeqSum(s) == IF s = <<>> THEN 0 ELSE Head(s) + SeqSum(Tail(s))

RECURSIVE FilterSeq(_, _)
FilterSeq(s, keep) ==
    IF s = <<>> THEN <<>>
    ELSE IF keep[Head(s)] THEN <<Head(s)>> \o FilterSeq(Tail(s), keep)
         ELSE FilterSeq(Tail(s), keep)

(***************************************************************************)
(* Traits (genetics.ts).                                                   *)
(***************************************************************************)
TraitNames ==
    {"speed", "size", "visionRange", "metabolism", "heatTolerance",
     "coldTolerance", "aggression", "camouflage", "lifespan",
     "reproductionRate", "socialBehavior", "dietPreference", "strength",
     "stamina"}

\* The value 1.0 of a trait, in thousandths.
One == 1000

\* A clamp that only keeps a value from falling below 0.
clampBelow(value) == Max(0, value)

clamp01(value) == Max(0, Min(One, value))

\* A trait vector that is `base` everywhere except the named fields.
TraitVector(base, diet, size, speed) ==
    [k \in TraitNames |->
        CASE k = "dietPreference" -> diet
          [] k = "size" -> size
          [] k = "speed" -> speed
          [] OTHER -> base]

(***************************************************************************)
(* Mutation and crossover.  Every Math.random() call is an explicit draw   *)
(* in thousandths; a mutation rate is in thousandths as well.              *)
(*   mutateTrait draw: [large, direction, u]                               *)
(*     large     - Math.random() < MUTATION_LARGE_CHANCE                   *)
(*     direction - -1 or 1                                                 *)
(*     u         - the Math.random() value that scales the change          *)
(*   crossover draw per trait: blendChance, in thousandths                 *)
(***************************************************************************)
MUTATION_LARGE_AMOUNT == 10

mutateTrait(value, mutationRate, d) ==
    IF d.large
    THEN clamp01(value + d.direction * ((MUTATION_LARGE_AMOUNT * d.u) \div One))
    ELSE clamp01(value + ((d.u - 500) * 2 * mutationRate) \div One)

mutateTraits(traits, mutationRate, draws) ==
    [k \in TraitNames |-> mutateTrait(traits[k], mutationRate, draws[k])]

\* Traits whose rate is multiplied by 1 + hungerStress * 4 under stress.
DietLinkedTraits == {"aggression", "dietPreference", "strength", "stamina"}

mutateTraitsWithStress(traits, hungerStress, mutationRate, draws) ==
    LET baseRate == mutationRate
        dietRate == (baseRate * (One + hungerStress * 4)) \div One
        rate(k) == IF k \in DietLinkedTraits THEN dietRate
                   ELSE IF k = "metabolism"
                        THEN (baseRate * (One + hungerStress)) \div One
                        ELSE baseRate
    IN [k \in TraitNames |-> mutateTrait(traits[k], rate(k), draws[k])]

crossoverTraits(parent1, parent2, mutationRate, blend, draws) ==
    LET child == [k \in TraitNames |->
                     IF blend[k] < 400 THEN parent1[k]
                     ELSE IF blend[k] < 800 THEN parent2[k]
                          ELSE (parent1[k] + parent2[k]) \div 2]
    IN mutateTraits(child, mutationRate, draws)

\* The draw under which a trait comes out unchanged at every rate.
NoDeviation == [k \in TraitNames |-> [large |-> FALSE, direction |-> 1, u |-> 500]]

(***************************************************************************)
(* Diet classification (creature.ts getters, format.ts getDietLabel).      *)
(***************************************************************************)
HERBIVORE_BELOW == 350
CARNIVORE_ABOVE == 650

isHerbivore(traits) == traits["dietPreference"] < HERBIVORE_BELOW
isCarnivore(traits) == traits["dietPreference"] > CARNIVORE_ABOVE
\* An omnivore test that leaves out the two boundary values.
isStrictlyBetween(traits) ==
    350 < traits["dietPreference"] /\ traits["dietPreference"] < 650

isOmnivore(traits) == ~isHerbivore(traits) /\ ~isCarnivore(traits)

getDietLabel(diet) ==
    IF diet < HERBIVORE_BELOW THEN "Herbivore"
    ELSE IF diet > CARNIVORE_ABOVE THEN "Carnivore"
    ELSE "Omnivore"

(***************************************************************************)
(* Species registry (species.ts).  species is the Map in insertion order:  *)
(* ids are handed out 1, 2, ... so species[i].id = i.                      *)
(***************************************************************************)
SPECIES_THRESHOLD == 150

\* geneticDistance without the final sqrt and division: the sum of squared
\* differences.  sqrt(sum / 14) < 0.15 iff sum < 14 * 0.15^2.
geneticDistance(traits1, traits2) ==
    SumOver(TraitNames,
            [k \in TraitNames |-> (traits1[k] - traits2[k]) * (traits1[k] - traits2[k])])

ThresholdSum == Cardinality(TraitNames) * SPECIES_THRESHOLD * SPECIES_THRESHOLD

EmptyRegistry == [species |-> <<>>, creatureSpecies |-> <<>>]

\* The scan without the test that skips a species of population 0.
RECURSIVE ScanAllSpecies(_, _, _, _, _)
ScanAllSpecies(species, traits, i, bestMatch, bestDistance) ==
    IF i > Len(species) THEN bestMatch
    ELSE LET d == geneticDistance(traits, species[i].prototypeTraits) IN
         IF d < ThresholdSum /\ (bestMatch = 0 \/ d < bestDistance)
         THEN ScanAllSpecies(species, traits, i + 1, i, d)
         ELSE ScanAllSpecies(species, traits, i + 1, bestMatch, bestDistance)

\* Linear scan keeping the first strictly smaller distance; 0 is "null".
RECURSIVE ScanSpecies(_, _, _, _, _)
ScanSpecies(species, traits, i, bestMatch, bestDistance) ==
    IF i > Len(species) THEN bestMatch
    ELSE IF species[i].population = 0
         THEN ScanSpecies(species, traits, i + 1, bestMatch, bestDistance)
         ELSE LET d == geneticDistance(traits, species[i].prototypeTraits) IN
              IF d < ThresholdSum /\ (bestMatch = 0 \/ d < bestDistance)
              THEN ScanSpecies(species, traits, i + 1, i, d)
              ELSE ScanSpecies(species, traits, i + 1, bestMatch, bestDistance)

findMatchingSpecies(reg, traits) == ScanSpecies(reg.species, traits, 1, 0, 0)

nextSpeciesId(reg) == Len(reg.species) + 1

createSpecies(reg, traits, createdAt) ==
    [reg EXCEPT !.species =
        Append(@, [id |-> nextSpeciesId(reg),
                   prototypeTraits |-> traits,
                   population |-> 0,
                   totalBirths |-> 0,
                   totalDeaths |-> 0,
                   generation |-> 0,
                   createdAt |-> createdAt])]

\* The id of the species assignSpecies returns.
assignedSpeciesId(reg, traits) ==
    IF findMatchingSpecies(reg, traits) # 0
    THEN findMatchingSpecies(reg, traits)
    ELSE nextSpeciesId(reg)

assignSpecies(reg, creatureId, traits, generation, currentTime) ==
    LET sid == assignedSpeciesId(reg, traits)
        r1 == IF findMatchingSpecies(reg, traits) # 0 THEN reg
              ELSE createSpecies(reg, traits, currentTime)
        s == r1.species[sid]
        pop == s.population + 1
        s2 == [s EXCEPT
                 !.population = pop,
                 !.totalBirths = @ + 1,
                 !.generation = Max(@, generation),
                 !.prototypeTraits =
                     [k \in TraitNames |-> (@[k] * (pop - 1) + traits[k]) \div pop]]
    IN [species |-> [r1.species EXCEPT ![sid] = s2],
        creatureSpecies |->
            [c \in (DOMAIN r1.creatureSpecies) \cup {creatureId} |->
                IF c = creatureId THEN sid ELSE r1.creatureSpecies[c]]]

\* A recordDeath that keeps the creature -> species entry.
recordDeathKeepingEntry(reg, creatureId) ==
    IF creatureId \notin DOMAIN reg.creatureSpecies THEN reg
    ELSE [reg EXCEPT !.species[reg.creatureSpecies[creatureId]] =
             [@ EXCEPT !.population = @ - 1, !.totalDeaths = @ + 1]]

recordDeath(reg, creatureId) ==
    IF creatureId \notin DOMAIN reg.creatureSpecies THEN reg
    ELSE LET sid == reg.creatureSpecies[creatureId] IN
         [species |->
             IF sid \in DOMAIN reg.species
             THEN [reg.species EXCEPT ![sid] =
                      [@ EXCEPT !.population = @ - 1, !.totalDeaths = @ + 1]]
             ELSE reg.species,
          creatureSpecies |->
             [c \in (DOMAIN reg.creatureSpecies) \ {creatureId} |->
                 reg.creatureSpecies[c]]]

getActiveSpecies(reg) ==
    {i \in DOMAIN reg.species : reg.species[i].population > 0}

ActivePopulation(reg) ==
    SumOver(getActiveSpecies(reg),
            [i \in getActiveSpecies(reg) |-> reg.species[i].population])

(***************************************************************************)
(* Creature (creature.ts).  A position is abstracted to the place it lies  *)
(* in: within EMIGRATION_EDGE_DISTANCE of a world edge, or the interior.   *)
(***************************************************************************)
Places == {"edge", "interior"}

CREATURE_BASE_ENERGY == 100
CREATURE_MAX_ENERGY == 150

\* CONFIG.CREATURE_MAX_ENERGY * (0.7 + size * 0.6)
maxEnergy(traits) ==
    (CREATURE_MAX_ENERGY * (700 + (traits["size"] * 600) \div One)) \div One

\* energyPercent < p (p in thousandths), without dividing.
energyPercentBelow(c, p) == c.energy * One < p * maxEnergy(c.traits)
energyPercentAtLeast(c, p) == ~energyPercentBelow(c, p)

\* new Creature(x, y, traits, generation); the id comes from nextCreatureId.
NewCreature(id, position, traits, generation) ==
    [id |-> id,
     position |-> position,
     traits |-> traits,
     energy |-> CREATURE_BASE_ENERGY,
     generation |-> generation,
     lastReproduction |-> 0,
     isAlive |-> TRUE,
     state |-> "wandering",
     hungerStress |-> 0,
     speciesId |-> 0]

\* Creature.die, the creature's own fields (the registry part is recordDeath).
die(c) == [c EXCEPT !.isAlive = FALSE, !.energy = 0]

\* An eat that adds the food energy without the cap.
eatUncapped(c, foodEnergy) == [c EXCEPT !.energy = c.energy + foodEnergy]

\* Creature.eat
eat(c, foodEnergy) ==
    [c EXCEPT !.energy = Min(maxEnergy(c.traits), c.energy + foodEnergy)]

\* Creature.takeDamage, the creature's own fields.
takeDamage(c, amount) ==
    IF c.energy - amount <= 0 THEN die([c EXCEPT !.energy = c.energy - amount])
    ELSE [c EXCEPT !.energy = c.energy - amount]

\* energyPercent in thousandths, as update reads it for the hunger stress.
energyPercent(c) == (c.energy * One) \div maxEnergy(c.traits)

(***************************************************************************)
(* Creature.update(deltaTime, currentTime).  d is what the model does not  *)
(* compute from the state:                                                 *)
(*   drain   - the energy the three subtractions (metabolism, movement,    *)
(*             hunting) take together in this call, 0 when deltaTime is 0  *)
(*   expired - age >= maxLifespan after age += deltaTime                   *)
(*   place   - where the integrated position lies                          *)
(* outcome is "alive", or the death condition that held.                   *)
(***************************************************************************)
updateEnergy(c, d) == [c EXCEPT !.energy = @ - d.drain]

updateStress(c, deltaTime) ==
    IF energyPercent(c) < 500
    THEN [c EXCEPT !.hungerStress =
             Min(One, @ + ((500 - energyPercent(c)) * 2 * deltaTime * 100) \div One)]
    ELSE IF energyPercent(c) > 700
         THEN [c EXCEPT !.hungerStress = Max(0, @ - deltaTime * 20)]
         ELSE c

updateDies(c, d) == c.energy <= 0 \/ d.expired

update(c, deltaTime, d) ==
    LET c1 == updateStress(updateEnergy(c, d), deltaTime) IN
    IF ~c.isAlive THEN c
    ELSE IF updateDies(c1, d) THEN die(c1)
    ELSE [c1 EXCEPT !.position = d.place]

(***************************************************************************)
(* Reproduction (creature.ts, genetics.ts).                                *)
(***************************************************************************)
REPRODUCTION_ENERGY_THRESHOLD == 800
REPRODUCTION_ENERGY_COST == 350
REPRODUCTION_COOLDOWN == 4
ASEXUAL_SIZE_THRESHOLD == 500
OFFSPRING_MAX_SMALL == 6
OFFSPRING_MAX_MEDIUM == 4
OFFSPRING_MAX_LARGE == 2
HERBIVORE_OFFSPRING_BONUS == 4
CARNIVORE_OFFSPRING_BONUS == 2

\* getReproductionThreshold, in thousandths of maxEnergy.
getReproductionThreshold(traits) ==
    LET offset == IF isCarnivore(traits) THEN 100
                  ELSE IF isHerbivore(traits) THEN -300
                  ELSE 50
        threshold == REPRODUCTION_ENERGY_THRESHOLD
                        - (traits["reproductionRate"] * 200) \div One + offset
    IN Min(950, Max(500, threshold))

\* getReproductionCooldown in milliseconds; the multipliers are in thousandths.
getReproductionCooldown(traits) ==
    LET cooldownMultiplier == IF isCarnivore(traits) THEN 2500
                              ELSE IF isOmnivore(traits) THEN 2500
                              ELSE 150
        sizeModifier == 500 + traits["size"]
        herbivoreReproModifier ==
            IF isHerbivore(traits)
            THEN IF traits["size"] < 300 THEN 100
                 ELSE IF traits["size"] < 500 THEN 200
                 ELSE 500
            ELSE One
    IN (((REPRODUCTION_COOLDOWN * cooldownMultiplier * sizeModifier) \div One)
           * herbivoreReproModifier) \div One

cooldownPassed(c, currentTime) ==
    (currentTime - c.lastReproduction) * One > getReproductionCooldown(c.traits)

canReproduce(c, currentTime) ==
    /\ c.isAlive
    /\ energyPercentAtLeast(c, getReproductionThreshold(c.traits))
    /\ cooldownPassed(c, currentTime)

prefersAsexual(traits) ==
    IF traits["size"] > ASEXUAL_SIZE_THRESHOLD THEN FALSE
    ELSE traits["dietPreference"] > 600 \/ traits["socialBehavior"] < 300

getMaxOffspringCount(size) ==
    IF size < 300 THEN OFFSPRING_MAX_SMALL
    ELSE IF size < 600 THEN OFFSPRING_MAX_MEDIUM
    ELSE OFFSPRING_MAX_LARGE

\* The largest offspringCount reproduceSexual can draw for the pair.
maxOffspring(c, partner) ==
    getMaxOffspringCount((c.traits["size"] + partner.traits["size"]) \div 2)
      + (IF isHerbivore(c.traits) /\ isHerbivore(partner.traits)
         THEN HERBIVORE_OFFSPRING_BONUS ELSE 0)
      + (IF isCarnivore(c.traits) /\ isCarnivore(partner.traits)
         THEN CARNIVORE_OFFSPRING_BONUS ELSE 0)

\* The parent after a successful reproduceAsexual.
\* A parent that pays for the offspring and does not note the time.
asexualParentNoCooldown(c, currentTime) ==
    [c EXCEPT
       !.energy = @ - (@ * REPRODUCTION_ENERGY_COST) \div One,
       !.hungerStress = @ \div 2]

asexualParent(c, currentTime) ==
    [c EXCEPT
       !.energy = @ - (@ * REPRODUCTION_ENERGY_COST) \div One,
       !.lastReproduction = currentTime,
       !.hungerStress = @ \div 2]

\* The offspring of reproduceAsexual; place is where parent + offset lies.
asexualOffspring(c, id, currentTime, mutationRate, draws, place) ==
    [NewCreature(id, place,
                 IF c.hungerStress > 100
                 THEN mutateTraitsWithStress(c.traits, c.hungerStress, mutationRate, draws)
                 ELSE mutateTraits(c.traits, mutationRate, draws),
                 c.generation + 1)
     EXCEPT !.lastReproduction = currentTime]

\* A parent after a successful reproduceSexual with offspringCount children:
\* cost = energy * (REPRODUCTION_ENERGY_COST * 0.6) * (1 + (count - 1) * 0.3).
sexualParent(c, currentTime, offspringCount) ==
    [c EXCEPT
       !.energy = @ - (@ * ((REPRODUCTION_ENERGY_COST * 6) \div 10)
                         * (One + (offspringCount - 1) * 300)) \div (One * One),
       !.lastReproduction = currentTime,
       !.hungerStress = @ \div 2]

sexualOffspring(c, partner, id, currentTime, mutationRate, blend, draws, place) ==
    LET combinedStress == Max(c.hungerStress, partner.hungerStress) IN
    [NewCreature(id, place,
                 IF combinedStress > 100
                 THEN mutateTraitsWithStress(
                          crossoverTraits(c.traits, partner.traits, 0, blend, NoDeviation),
                          combinedStress, mutationRate, draws)
                 ELSE crossoverTraits(c.traits, partner.traits, mutationRate, blend, draws),
                 Max(c.generation, partner.generation) + 1)
     EXCEPT !.lastReproduction = currentTime]

(***************************************************************************)
(* World (world.ts).  A simulation S is the World object together with the *)
(* two process-wide singletons it uses: the species registry and the       *)
(* creature id counter.                                                    *)
(***************************************************************************)
TEMPERATURE_DEFAULT == 20
MUTATION_RATE == 1
MAX_CORPSES == 500
CORPSE_ENERGY_MIN == 5

(***************************************************************************)
(* Spatial index of the creatures as the World uses it: the entries are    *)
(* the creature objects inserted by the last updateSpatialHashes, bucketed *)
(* by the place they were at then.  obj is the object's state for entries  *)
(* whose creature is no longer in world.creatures.                         *)
(***************************************************************************)
creatureById(w, id) ==
    LET idx == {i \in DOMAIN w.creatures : w.creatures[i].id = id}
    IN IF idx = {} THEN 0 ELSE CHOOSE i \in idx : TRUE

\* The current state of the object a hash entry refers to.
entryObject(w, hash, k) ==
    IF creatureById(w, hash[k].id) # 0
    THEN w.creatures[creatureById(w, hash[k].id)]
    ELSE hash[k].obj

\* updateSpatialHashes, the creature hash: clear, insert every live creature.
rebuildCreatureHash(w) ==
    LET live == SelectSeq(w.creatures, LAMBDA c : c.isAlive)
    IN [k \in DOMAIN live |->
           [id |-> live[k].id, position |-> live[k].position, obj |-> live[k]]]

\* The entries keep referring to their objects when the World drops them.
detachHash(w, hash) ==
    [k \in DOMAIN hash |-> [hash[k] EXCEPT !.obj = entryObject(w, hash, k)]]

\* getCreaturesNear: the hash entries of that place whose object is alive.
getCreaturesNear(w, hash, position) ==
    {k \in DOMAIN hash :
        hash[k].position = position /\ entryObject(w, hash, k).isAlive}

\* The fields of a freshly constructed World.
NewWorld ==
    [creatures |-> <<>>,
     food |-> <<>>,
     corpses |-> <<>>,
     creatureHash |-> <<>>,
     globalTemperature |-> TEMPERATURE_DEFAULT,
     temperatureZones |-> <<>>,
     foodAbundance |-> One,
     mutationRate |-> MUTATION_RATE,
     randomZonesEnabled |-> FALSE,
     foodSpawnAccumulator |-> 0,
     zoneSpawnAccumulator |-> 0,
     migrationAccumulator |-> 0,
     simulationTime |-> 0,
     totalBirths |-> 0,
     totalDeaths |-> 0,
     generationMax |-> 0]

\* new Food(x, y) of the size class "small" (energy 15).
SMALL_FOOD_ENERGY == 15
NewFood == [energy |-> SMALL_FOOD_ENERGY, isConsumed |-> FALSE]

\* Herbivore-biased vectors as generateHerbivoreTraits and the founder loop
\* produce them: low aggression, high socialBehavior, dietPreference <= 0.34.
HerbivoreVector(diet, size, speed) ==
    [k \in TraitNames |->
        CASE k = "dietPreference" -> diet
          [] k = "size" -> size
          [] k = "speed" -> speed
          [] k = "aggression" -> 200
          [] k = "socialBehavior" -> 700
          [] OTHER -> 500]

\* Founders: jittered herbivore traits, diet capped at 0.34, size in
\* [0.05, 0.25).  Two of them far enough apart to be different species.
FounderTraits ==
    {HerbivoreVector(100, 50, 100), HerbivoreVector(340, 240, 900)}

\* Migrants: generateHerbivoreTraits (dietPreference < 0.3) with -/+0.05 jitter.
MigrantTraits ==
    {HerbivoreVector(100, 50, 100), HerbivoreVector(299, 600, 900)}

\* The variation regular migration gives each member of a group:
\* clamp01(trait + (Math.random() - 0.5) * 0.1), the same roll j for every
\* trait, j in [-0.05, 0.05).
individualTraits(migrantTraits, j) ==
    [k \in TraitNames |-> clamp01(migrantTraits[k] + j)]

\* The spawn of one creature that is assigned a species and pushed:
\* new Creature, speciesRegistry.assignSpecies, speciesId, creatures.push.
pushWithSpecies(S, position, traits, generation) ==
    LET c0 == NewCreature(S.nextCreatureId, position, traits, generation)
        sid == assignedSpeciesId(S.registry, traits)
    IN [S EXCEPT
          !.world.creatures = Append(@, [c0 EXCEPT !.speciesId = sid]),
          !.registry = assignSpecies(@, c0.id, traits, generation,
                                     S.world.simulationTime),
          !.nextCreatureId = @ + 1]

RECURSIVE spawnFounders(_, _)
spawnFounders(S, picks) ==
    IF picks = <<>> THEN S
    ELSE spawnFounders(
             pushWithSpecies(S, Head(picks).position, Head(picks).traits, 0),
             Tail(picks))

\* An initialize that does not empty the creature list before it spawns.
initializeAppending(S, picks) ==
    LET w0 == [S.world EXCEPT
                 !.food = <<>>,
                 !.corpses = <<>>,
                 !.totalBirths = 0,
                 !.totalDeaths = 0,
                 !.generationMax = 0,
                 !.simulationTime = 0]
        S1 == spawnFounders([S EXCEPT !.world = w0, !.registry = EmptyRegistry],
                            picks)
    IN [S1 EXCEPT !.world.food = [i \in 1..INITIAL_FOOD_COUNT |-> NewFood]]

\* World.initialize(creatureCount); picks are the creatureCount random draws.
initialize(S, picks) ==
    LET w0 == [S.world EXCEPT
                 !.creatureHash = detachHash(S.world, @),
                 !.creatures = <<>>,
                 !.food = <<>>,
                 !.corpses = <<>>,
                 !.totalBirths = 0,
                 !.totalDeaths = 0,
                 !.generationMax = 0,
                 !.simulationTime = 0]
        S1 == spawnFounders([S EXCEPT !.world = w0, !.registry = EmptyRegistry],
                            picks)
    IN [S1 EXCEPT !.world.food = [i \in 1..INITIAL_FOOD_COUNT |-> NewFood]]

aliveCreatures(w) ==
    {i \in DOMAIN w.creatures : w.creatures[i].isAlive}

unconsumedFood(w) == {i \in DOMAIN w.food : ~w.food[i].isConsumed}

\* addCreature without its test of creatures.length.
addCreatureUnguarded(S, c) ==
    [S EXCEPT
       !.registry = assignSpecies(S.registry, c.id, c.traits, c.generation,
                                  S.world.simulationTime),
       !.world.creatures =
           Append(@, [c EXCEPT !.speciesId = assignedSpeciesId(S.registry, c.traits)]),
       !.world.totalBirths = @ + 1,
       !.world.generationMax = Max(@, c.generation)]

\* World.addCreature for a creature object already constructed.
addCreature(S, c) ==
    IF Len(S.world.creatures) < MAX_CREATURES
    THEN [S EXCEPT
            !.registry = assignSpecies(S.registry, c.id, c.traits, c.generation,
                                       S.world.simulationTime),
            !.world.creatures =
                Append(@, [c EXCEPT !.speciesId =
                                       assignedSpeciesId(S.registry, c.traits)]),
            !.world.totalBirths = @ + 1,
            !.world.generationMax = Max(@, c.generation)]
    ELSE S

(***************************************************************************)
(* Deaths.  Creature.die acts on the creature and on the registry; deaths  *)
(* is the history of the die() calls since the last cleanup: who, why,     *)
(* where, and the energy held when the death condition was tested.         *)
(***************************************************************************)
creatureDies(S, i, cause) ==
    LET c == S.world.creatures[i] IN
    [S EXCEPT
       !.world.creatures[i] = die(c),
       !.registry = recordDeath(@, c.id),
       !.deaths = Append(@, [id |-> c.id, cause |-> cause,
                             energy |-> c.energy, position |-> c.position])]

\* creature.takeDamage(amount) on creatures[i].
creatureTakesDamage(S, i, amount, cause) ==
    LET c == S.world.creatures[i] IN
    IF c.energy - amount <= 0
    THEN creatureDies([S EXCEPT !.world.creatures[i].energy = @ - amount], i, cause)
    ELSE [S EXCEPT !.world.creatures[i] = takeDamage(c, amount)]

\* creature.update(deltaTime, currentTime) on creatures[i].
creatureUpdates(S, i, deltaTime, d) ==
    LET c == S.world.creatures[i]
        c1 == updateStress(updateEnergy(c, d), deltaTime)
    IN IF ~c.isAlive THEN S
       ELSE IF updateDies(c1, d)
            THEN creatureDies([S EXCEPT !.world.creatures[i] = c1], i,
                              IF c1.energy <= 0 THEN "starved" ELSE "age")
            ELSE [S EXCEPT !.world.creatures[i] = update(c, deltaTime, d)]

\* createCorpse: 60% of the energy the creature holds when it is collected.
createCorpse(position, creatureEnergy, currentTime) ==
    [position |-> position,
     energy |-> (creatureEnergy * 6) \div 10,
     createdAt |-> currentTime,
     isConsumed |-> FALSE]

CORPSE_DECAY_TIME == 30
isDecayed(corpse, currentTime) == currentTime - corpse.createdAt > CORPSE_DECAY_TIME

RECURSIVE collectCorpses(_, _, _)
collectCorpses(creatures, corpses, currentTime) ==
    IF creatures = <<>> THEN corpses
    ELSE LET c == Head(creatures) IN
         collectCorpses(
             Tail(creatures),
             IF ~c.isAlive /\ c.energy > CORPSE_ENERGY_MIN /\ Len(corpses) < MAX_CORPSES
             THEN Append(corpses, createCorpse(c.position, c.energy, currentTime))
             ELSE corpses,
             currentTime)

\* World.cleanup
cleanup(w) ==
    LET withCorpses == collectCorpses(w.creatures, w.corpses, w.simulationTime)
        deadCreatures == Len(w.creatures) - Cardinality(aliveCreatures(w))
    IN [w EXCEPT
          !.creatureHash = detachHash(w, @),
          !.totalDeaths = @ + deadCreatures,
          !.creatures = SelectSeq(@, LAMBDA c : c.isAlive),
          !.food = SelectSeq(@, LAMBDA f : ~f.isConsumed),
          !.corpses = SelectSeq(withCorpses,
                          LAMBDA c : ~c.isConsumed /\ ~isDecayed(c, w.simulationTime))]

(***************************************************************************)
(* Food spawning.  rolls[j] is the draw of the j-th loop iteration: 1 is a *)
(* single spawn, 2..5 the size of a cluster.                               *)
(***************************************************************************)
FOOD_SPAWN_RATE == 1
ClusterChoices == {1, 2, 5}

\* The loop with a cluster pushed whole, without the test of its for loop.
RECURSIVE spawnFoodLoopWholeClusters(_, _)
spawnFoodLoopWholeClusters(w, rolls) ==
    IF w.foodSpawnAccumulator >= One /\ Len(w.food) < MAX_FOOD /\ rolls # <<>>
    THEN spawnFoodLoopWholeClusters(
             [w EXCEPT !.foodSpawnAccumulator = @ - One,
                       !.food = @ \o [i \in 1..Head(rolls) |-> NewFood]],
             Tail(rolls))
    ELSE w

RECURSIVE spawnFoodLoop(_, _)
spawnFoodLoop(w, rolls) ==
    IF w.foodSpawnAccumulator >= One /\ Len(w.food) < MAX_FOOD /\ rolls # <<>>
    THEN LET added == Min(Head(rolls), MAX_FOOD - Len(w.food)) IN
         spawnFoodLoop(
             [w EXCEPT !.foodSpawnAccumulator = @ - One,
                       !.food = @ \o [i \in 1..added |-> NewFood]],
             Tail(rolls))
    ELSE w

spawnFood(w, deltaTime, rolls) ==
    spawnFoodLoop(
        [w EXCEPT !.foodSpawnAccumulator =
                      @ + deltaTime * FOOD_SPAWN_RATE * w.foodAbundance],
        rolls)

(***************************************************************************)
(* Creature.canHunt.  Pixel sizes are in thousandths of a pixel.           *)
(***************************************************************************)
CREATURE_MIN_SIZE == 3
CREATURE_MAX_SIZE == 32

\* getCreatureSize
getCreatureSize(traits) ==
    CREATURE_MIN_SIZE * One + traits["size"] * (CREATURE_MAX_SIZE - CREATURE_MIN_SIZE)

canHunt(h, t) ==
    LET hs == getCreatureSize(h.traits)
        ts == getCreatureSize(t.traits)
        minWorthwhileSize == IF energyPercentBelow(h, 400) THEN 150 ELSE 250
    IN
    IF ~isCarnivore(h.traits) /\ ~isOmnivore(h.traits) THEN FALSE
    ELSE IF t.id = h.id THEN FALSE
    ELSE IF ts * One < hs * minWorthwhileSize THEN FALSE
    ELSE IF isCarnivore(t.traits)
            /\ (~energyPercentBelow(h, 200)
                \/ (~(h.traits["strength"] * 10 > t.traits["strength"] * 15)
                    /\ ~(hs * 10 > ts * 15)))
         THEN FALSE
    ELSE IF isOmnivore(t.traits)
            /\ (~energyPercentBelow(h, 500)
                \/ (~(h.traits["strength"] * 10 > t.traits["strength"] * 12)
                    /\ ~(hs * 10 > ts * 11)))
         THEN FALSE
    ELSE IF ts * 10 > hs * 15
         THEN h.traits["aggression"] > 800 /\ h.traits["strength"] > 700
    ELSE \/ hs * 10 > ts * 8
         \/ h.traits["aggression"] > 600
         \/ h.traits["strength"] * 10 > t.traits["strength"] * 12

(***************************************************************************)
(* Migration.  A draw holds the random choices of one spawnMigrants call:  *)
(* the rescue group's size, the regular group's size and the traits the    *)
(* group arrives with.  Migrants are placed CREATURE_MAX_SIZE or more from *)
(* every edge, which is outside EMIGRATION_EDGE_DISTANCE: the interior.    *)
(***************************************************************************)
MIGRATION_ENABLED == TRUE
MIGRATION_BASE_RATE == 1
MIGRATION_FOOD_THRESHOLD == 800
MIGRATION_POP_THRESHOLD == 300
MIGRATION_GROUP_SIZE_MIN == 1
MIGRATION_GROUP_SIZE_MAX == 2

\* CONFIG is a mutable object read at each call: the operators of migration
\* take the configuration they run under, a record of MAX_CREATURES and
\* MAX_FOOD.
CONFIG == [MAX_CREATURES |-> MAX_CREATURES, MAX_FOOD |-> MAX_FOOD]

\* The for loop shared by both paths: push while the group and the World allow.
RECURSIVE spawnGroupUnder(_, _, _, _, _)
spawnGroupUnder(config, S, groupSize, traits, position) ==
    IF groupSize = 0 \/ Len(S.world.creatures) >= config.MAX_CREATURES THEN S
    ELSE spawnGroupUnder(config,
             [pushWithSpecies(S, position, traits, 0) EXCEPT !.world.totalBirths = @ + 1],
             groupSize - 1, traits, position)

spawnGroup(S, groupSize, traits, position) ==
    spawnGroupUnder(CONFIG, S, groupSize, traits, position)

\* A rescue path that brings nobody.
noRescueMigrants(config, S, draw) == S

spawnRescueMigrantsUnder(config, S, draw) ==
    spawnGroupUnder(config, S, draw.rescueSize, draw.traits, "interior")

spawnRescueMigrants(S, draw) == spawnRescueMigrantsUnder(CONFIG, S, draw)

RECURSIVE migrationLoopUnder(_, _, _)
migrationLoopUnder(config, S, draw) ==
    IF /\ S.world.migrationAccumulator >= One
       /\ Len(S.world.creatures) < config.MAX_CREATURES
    THEN migrationLoopUnder(config,
             spawnGroupUnder(config, [S EXCEPT !.world.migrationAccumulator = @ - One],
                             draw.groupSize,
                             individualTraits(draw.traits, draw.jitter), "interior"),
             draw)
    ELSE S

migrationLoop(S, draw) == migrationLoopUnder(CONFIG, S, draw)

herbivoreCount(w) ==
    Cardinality({i \in aliveCreatures(w) : isHerbivore(w.creatures[i].traits)})

\* The rescue test without its herbivore count.
rescueWhateverTheHerbivores(config, w) ==
    /\ Cardinality(unconsumedFood(w)) * One > 300 * config.MAX_FOOD
    /\ Cardinality(aliveCreatures(w)) * One < 800 * config.MAX_CREATURES

\* herbivores < minHerbivores && foodRatio > 0.3 && popRatio < 0.8
rescueDue(config, w) ==
    LET alive == Cardinality(aliveCreatures(w))
        minHerbivores == Max(5, alive \div 10)
    IN /\ herbivoreCount(w) < minHerbivores
       /\ Cardinality(unconsumedFood(w)) * One > 300 * config.MAX_FOOD
       /\ alive * One < 800 * config.MAX_CREATURES

spawnMigrantsUnder(config, S, deltaTime, draw) ==
    LET w == S.world
        alive == Cardinality(aliveCreatures(w))
        foodCount == Cardinality(unconsumedFood(w))
        S1 == IF rescueDue(config, w)
              THEN spawnRescueMigrantsUnder(config, S, draw)
              ELSE S
    IN IF ~MIGRATION_ENABLED THEN S
       ELSE IF foodCount * One < MIGRATION_FOOD_THRESHOLD * config.MAX_FOOD THEN S1
       ELSE IF alive * One > MIGRATION_POP_THRESHOLD * config.MAX_CREATURES THEN S1
       ELSE migrationLoopUnder(config,
                [S1 EXCEPT !.world.migrationAccumulator =
                               @ + deltaTime * MIGRATION_BASE_RATE * w.foodAbundance],
                draw)

spawnMigrants(S, deltaTime, draw) == spawnMigrantsUnder(CONFIG, S, deltaTime, draw)

MigrationDraws ==
    [rescueSize : {2, 4},
     groupSize : MIGRATION_GROUP_SIZE_MIN..MIGRATION_GROUP_SIZE_MAX,
     traits : MigrantTraits,
     jitter : {-50, 49}]

(***************************************************************************)
(* Emigration.  leaves[i] is the outcome of creature i's per-frame roll    *)
(* Math.random() < emigrationChance * deltaTime.                           *)
(***************************************************************************)
EMIGRATION_ENERGY_THRESHOLD == 350
EMIGRATION_CROWDING_THRESHOLD == 8

\* The multiple of EMIGRATION_BASE_CHANCE that applies to a creature.
emigrationChance(c, isCrowded) ==
    IF energyPercentBelow(c, 200) THEN 5
    ELSE IF c.state = "fleeing" THEN 3
    ELSE IF energyPercentBelow(c, EMIGRATION_ENERGY_THRESHOLD) /\ isCrowded THEN 2
    ELSE IF energyPercentBelow(c, EMIGRATION_ENERGY_THRESHOLD) THEN 1
    ELSE 0

RECURSIVE emigrationLoop(_, _, _, _)
emigrationLoop(S, i, deltaTime, leaves) ==
    IF i > Len(S.world.creatures) THEN S
    ELSE
      LET w == S.world
          c == w.creatures[i]
          nearby == getCreaturesNear(w, w.creatureHash, c.position)
          isCrowded == Cardinality(nearby) > EMIGRATION_CROWDING_THRESHOLD
          hasNearbyPrey ==
              \E k \in nearby :
                  LET other == entryObject(w, w.creatureHash, k) IN
                  /\ other.isAlive
                  /\ other.id # c.id
                  /\ ~isCarnivore(other.traits)
                  /\ canHunt(c, other)
      IN
      IF ~c.isAlive \/ c.position # "edge"
      THEN emigrationLoop(S, i + 1, deltaTime, leaves)
      ELSE IF (isCarnivore(c.traits) \/ isOmnivore(c.traits)) /\ hasNearbyPrey
      THEN emigrationLoop(S, i + 1, deltaTime, leaves)
      ELSE IF emigrationChance(c, isCrowded) > 0 /\ deltaTime > 0 /\ leaves[i]
      THEN emigrationLoop(
               [creatureDies(S, i, "emigrated") EXCEPT
                  !.world.totalDeaths = Max(0, @ - 1)],
               i + 1, deltaTime, leaves)
      ELSE emigrationLoop(S, i + 1, deltaTime, leaves)

processEmigration(S, deltaTime, leaves) == emigrationLoop(S, 1, deltaTime, leaves)

(***************************************************************************)
(* Temperature zones.  A zone's place and radius are not modelled.         *)
(***************************************************************************)
TEMP_ZONE_SPAWN_RATE == 1
TEMP_ZONE_MAX == 1
TEMP_ZONE_LIFETIME == 2

addTemperatureZone(w, temperature) ==
    [w EXCEPT !.temperatureZones =
        Append(@, [temperature |-> temperature,
                   createdAt |-> w.simulationTime,
                   isRandom |-> FALSE])]

randomZones(w) == {i \in DOMAIN w.temperatureZones : w.temperatureZones[i].isRandom}

\* The while loop tests the count taken before the loop.
RECURSIVE spawnZoneLoop(_, _, _)
spawnZoneLoop(w, randomZoneCount, temperature) ==
    IF w.zoneSpawnAccumulator >= 1 /\ randomZoneCount < TEMP_ZONE_MAX
    THEN spawnZoneLoop(
             [w EXCEPT
                !.zoneSpawnAccumulator = @ - 1,
                !.temperatureZones =
                    Append(@, [temperature |-> temperature,
                               createdAt |-> w.simulationTime,
                               isRandom |-> TRUE])],
             randomZoneCount, temperature)
    ELSE w

spawnRandomZones(w, deltaTime, temperature) ==
    IF ~w.randomZonesEnabled THEN w
    ELSE spawnZoneLoop(
             [w EXCEPT !.zoneSpawnAccumulator = @ + deltaTime * TEMP_ZONE_SPAWN_RATE],
             Cardinality(randomZones(w)), temperature)

decayTemperatureZones(w) ==
    [w EXCEPT !.temperatureZones =
        SelectSeq(@, LAMBDA zone :
            ~zone.isRandom \/ w.simulationTime - zone.createdAt < TEMP_ZONE_LIFETIME)]

setRandomZonesEnabled(w, enabled) ==
    [w EXCEPT
       !.randomZonesEnabled = enabled,
       !.temperatureZones =
           IF enabled THEN @ ELSE SelectSeq(@, LAMBDA z : ~z.isRandom)]

(***************************************************************************)
(* updateCreatureBehaviors (physics.ts).  Distances, angles and the        *)
(* Math.random() rolls are not computed: the draw d of one loop iteration  *)
(* says how they came out.                                                 *)
(*   tempDamage - getTemperatureDamage(creature) * deltaTime               *)
(*   threat     - "flee": a threat within 0.8 visionRange was detected;    *)
(*                "hide": it was not detected; "none": no threat so close  *)
(*   forage     - a hungry meat eater goes for food rather than for prey   *)
(*   here       - Math.random() < reproductionChance                       *)
(*   contact    - the mate is within size + mate.size + 5                  *)
(*   count      - offspringCount of reproduceSexual                        *)
(*   lonely     - Math.random() < 0.1 (asexual fallback without a mate)    *)
(*   drain, expired, place - see update                                    *)
(* The neighbours come from the creature hash as the last                  *)
(* updateSpatialHashes left it.                                            *)
(***************************************************************************)
HERBIVORE_HUNGER_THRESHOLD == 850
OMNIVORE_HUNGER_THRESHOLD == 750
CARNIVORE_HUNGER_THRESHOLD_BASE == 600
CARNIVORE_HUNGER_SIZE_MODIFIER == 350

\* The creature objects getCreaturesNear returns for creatures[i].
nearbyCreatures(S, i) ==
    LET w == S.world IN
    {entryObject(w, w.creatureHash, k) :
        k \in getCreaturesNear(w, w.creatureHash, w.creatures[i].position)}

\* findNearestThreat returns a creature.
hasThreat(S, i) ==
    LET c == S.world.creatures[i] IN
    /\ ~(isCarnivore(c.traits) /\ c.traits["strength"] > 700)
    /\ \E other \in nearbyCreatures(S, i) :
           /\ other.id # c.id
           /\ other.isAlive
           /\ isCarnivore(other.traits)
           /\ other.traits["aggression"] > 400
           /\ canHunt(other, c)

hungerThreshold(traits) ==
    IF isHerbivore(traits) THEN HERBIVORE_HUNGER_THRESHOLD
    ELSE IF isCarnivore(traits)
         THEN CARNIVORE_HUNGER_THRESHOLD_BASE
                - (traits["size"] * CARNIVORE_HUNGER_SIZE_MODIFIER) \div One
         ELSE OMNIVORE_HUNGER_THRESHOLD

isHungry(c) == energyPercentBelow(c, hungerThreshold(c.traits))

\* Some creature the hunter may pick as prey (findVulnerablePrey, findPrey).
hasPrey(S, i) ==
    LET c == S.world.creatures[i] IN
    \E other \in nearbyCreatures(S, i) :
        other.id # c.id /\ other.isAlive /\ canHunt(c, other)

\* Creature.isCompatibleMate
isCompatibleMate(S, c, other) ==
    /\ other.id # c.id
    /\ other.isAlive
    /\ IF c.speciesId # 0 /\ other.speciesId # 0
       THEN /\ c.id \in DOMAIN S.registry.creatureSpecies
            /\ other.id \in DOMAIN S.registry.creatureSpecies
            /\ S.registry.creatureSpecies[c.id] = S.registry.creatureSpecies[other.id]
       ELSE LET dd == c.traits["dietPreference"] - other.traits["dietPreference"]
                sd == c.traits["socialBehavior"] - other.traits["socialBehavior"]
            IN ~(Max(dd, -dd) > 400) /\ Max(sd, -sd) < 500

\* The indexes in world.creatures of the creatures findMate can return.
mateCandidates(S, i) ==
    LET c == S.world.creatures[i] IN
    {j \in DOMAIN S.world.creatures :
        /\ S.world.creatures[j] \in nearbyCreatures(S, i)
        /\ isCompatibleMate(S, c, S.world.creatures[j])
        /\ canReproduce(S.world.creatures[j], S.world.simulationTime)}

\* shouldSeekMate: readiness >= 0.7, both progresses taken without dividing.
shouldSeekMate(c, currentTime) ==
    /\ c.isAlive
    /\ ~prefersAsexual(c.traits)
    /\ (currentTime - c.lastReproduction) * One * 10
           >= 7 * getReproductionCooldown(c.traits)
    /\ c.energy * One * 10
           >= 7 * getReproductionThreshold(c.traits) * maxEnergy(c.traits)

\* findGroupCenter returns a point: two or more others of similar diet.
hasGroupCenter(S, i) ==
    LET c == S.world.creatures[i]
        similar == {other \in nearbyCreatures(S, i) :
                       /\ other.id # c.id
                       /\ other.isAlive
                       /\ LET dd == c.traits["dietPreference"]
                                      - other.traits["dietPreference"]
                          IN ~(Max(dd, -dd) > 300)}
    IN Cardinality(similar) >= 2

\* getReproductionChance(nearbyCount) < 1
isCrowdedForReproduction(S, i) ==
    Cardinality(nearbyCreatures(S, i))
        > (IF isOmnivore(S.world.creatures[i].traits) THEN 8 ELSE 5)

setState(S, i, state) == [S EXCEPT !.world.creatures[i].state = state]

\* creature.reproduceAsexual + world.addCreature, canReproduce already known.
\* The offspring object takes an id whether or not the World has room.
bearAsexual(S, i) ==
    LET c == S.world.creatures[i]
        offspring == asexualOffspring(c, S.nextCreatureId, S.world.simulationTime,
                                      S.world.mutationRate, NoDeviation, c.position)
    IN addCreature([S EXCEPT
                      !.world.creatures[i] = asexualParent(c, S.world.simulationTime),
                      !.nextCreatureId = @ + 1],
                   offspring)

RECURSIVE addChildren(_, _, _, _)
addChildren(S, c, partner, n) ==
    IF n = 0 THEN S
    ELSE addChildren(
             addCreature([S EXCEPT !.nextCreatureId = @ + 1],
                         sexualOffspring(c, partner, S.nextCreatureId,
                                         S.world.simulationTime, S.world.mutationRate,
                                         [k \in TraitNames |-> 0], NoDeviation,
                                         c.position)),
             c, partner, n - 1)

\* creature.reproduceSexual(mate) + world.addCreature for each child.
bearSexual(S, i, j, offspringCount) ==
    LET c == S.world.creatures[i]
        partner == S.world.creatures[j]
        now == S.world.simulationTime
    IN addChildren([S EXCEPT
                      !.world.creatures[i] = sexualParent(c, now, offspringCount),
                      !.world.creatures[j] = sexualParent(partner, now, offspringCount)],
                   c, partner, offspringCount)

\* The reproduction branch of the decision.
reproduceBranch(S, i, d) ==
    LET c == S.world.creatures[i]
        mates == mateCandidates(S, i)
        mate == CHOOSE j \in mates : \A k \in mates : j <= k
    IN IF isCrowdedForReproduction(S, i) /\ ~d.here THEN setState(S, i, "wandering")
       ELSE IF prefersAsexual(c.traits) THEN bearAsexual(S, i)
       ELSE IF mates # {} /\ d.contact THEN bearSexual(S, i, mate, d.count)
       ELSE IF mates # {} THEN setState(S, i, "seeking_mate")
       ELSE setState(IF d.lonely THEN bearAsexual(S, i) ELSE S, i, "wandering")

\* The hunger branch of the decision.
hungerBranch(S, i, d) ==
    LET c == S.world.creatures[i] IN
    IF isOmnivore(c.traits)
    THEN setState(S, i, IF ~d.forage /\ hasPrey(S, i) THEN "hunting" ELSE "seeking_food")
    ELSE IF isCarnivore(c.traits)
    THEN setState(S, i, IF d.forage /\ S.world.corpses # <<>>
                        THEN "seeking_food" ELSE "hunting")
    ELSE setState(S, i, "seeking_food")

\* The if / else-if chain of one loop iteration, before creature.update.
decide(S, i, d) ==
    LET c == S.world.creatures[i] IN
    IF hasThreat(S, i) /\ d.threat # "none"
    THEN IF d.threat = "flee" THEN setState(S, i, "fleeing") ELSE S
    ELSE IF isHungry(c) THEN hungerBranch(S, i, d)
    ELSE IF canReproduce(c, S.world.simulationTime) THEN reproduceBranch(S, i, d)
    ELSE IF shouldSeekMate(c, S.world.simulationTime) THEN setState(S, i, "seeking_mate")
    ELSE IF c.traits["socialBehavior"] > 600
         THEN IF hasGroupCenter(S, i) THEN S ELSE setState(S, i, "wandering")
    ELSE setState(S, i, "wandering")

\* One iteration of the for loop.
behave(S, i, deltaTime, d) ==
    LET S1 == IF d.tempDamage > 0
              THEN creatureTakesDamage(S, i, d.tempDamage * deltaTime, "temperature")
              ELSE S
    IN IF ~S.world.creatures[i].isAlive THEN S
       ELSE IF ~S1.world.creatures[i].isAlive THEN S1
       ELSE creatureUpdates(decide(S1, i, d), i, deltaTime, d)

\* The largest tempDamage * deltaTime and the drain of one update that the
\* model draws, and the largest offspringCount it draws.
TempDamage == 120
DrainPerUpdate == 70
MaxOffspringDraw == 2

\* The draws one loop iteration can see; a roll the iteration cannot reach
\* is fixed.  Temperature damage needs a zone over the creature or a global
\* temperature outside 10..30.
BehaviorDraws(S, i, deltaTime) ==
    LET w == S.world
        c == w.creatures[i]
        mating == ~prefersAsexual(c.traits) /\ mateCandidates(S, i) # {}
        pair == IF mating
                THEN Min(MaxOffspringDraw,
                         maxOffspring(c, w.creatures[CHOOSE j \in mateCandidates(S, i) :
                                                \A k \in mateCandidates(S, i) : j <= k]))
                ELSE 1
    IN [tempDamage : IF \/ w.temperatureZones # <<>>
                        \/ w.globalTemperature > 30
                        \/ w.globalTemperature < 10
                     THEN {0, TempDamage} ELSE {0},
        threat : IF hasThreat(S, i) THEN {"flee", "hide", "none"} ELSE {"none"},
        forage : IF isHerbivore(c.traits) THEN {TRUE} ELSE BOOLEAN,
        here : IF isCrowdedForReproduction(S, i) THEN BOOLEAN ELSE {TRUE},
        contact : IF mating THEN BOOLEAN ELSE {FALSE},
        count : 1..pair,
        lonely : IF mating \/ prefersAsexual(c.traits) THEN {FALSE} ELSE BOOLEAN,
        drain : {DrainPerUpdate * deltaTime},
        expired : IF deltaTime > 0 THEN BOOLEAN ELSE {FALSE},
        place : IF deltaTime > 0 THEN Places ELSE {c.position}]

\* The for loop over world.creatures; the array grows while it is iterated,
\* so the offspring pushed by an iteration get their own iteration.
RECURSIVE behaviorOutcomes(_, _, _)
behaviorOutcomes(S, i, deltaTime) ==
    IF i > Len(S.world.creatures) THEN {S}
    ELSE IF ~S.world.creatures[i].isAlive THEN behaviorOutcomes(S, i + 1, deltaTime)
    ELSE UNION {behaviorOutcomes(behave(S, i, deltaTime, d), i + 1, deltaTime) :
                   d \in BehaviorDraws(S, i, deltaTime)}

\* The states updateCreatureBehaviors(world, deltaTime, simulationTime) can leave.
updateCreatureBehaviors(S, deltaTime) == behaviorOutcomes(S, 1, deltaTime)

(***************************************************************************)
(* handleCollisions (physics.ts).  The draw of a creature says which       *)
(* collisions the geometry gives it: eats (it touches a food item),        *)
(* scavenges (a corpse), attacks (a creature it can hunt).  Amounts are    *)
(* those of a lone hunter and a lone prey (no pack, no herd).              *)
(***************************************************************************)
CARNIVORE_MEAT_EFFICIENCY == 350
OMNIVORE_MEAT_EFFICIENCY == 150

updateSpatialHashes(S) == [S EXCEPT !.world.creatureHash = rebuildCreatureHash(S.world)]

\* Food.consume / Corpse.consume: the bite of a creature of that size trait.
foodBite(traits) == 5 + (traits["size"] * 20) \div One
corpseBite(traits) == 8 + (traits["size"] * 22) \div One

firstUnconsumed(items) ==
    LET open == {j \in DOMAIN items : ~items[j].isConsumed /\ items[j].energy > 0}
    IN IF open = {} THEN 0 ELSE CHOOSE j \in open : \A k \in open : j <= k

consume(item, bite) ==
    [item EXCEPT !.energy = @ - Min(@, bite),
                 !.isConsumed = (item.energy - Min(item.energy, bite) <= 0)]

\* The energy a creature gets out of `consumed` units of plant food.
plantEnergy(S, i, consumed) ==
    LET c == S.world.creatures[i]
        afterDiet ==
            IF isHerbivore(c.traits)
            THEN (consumed * (One + (c.traits["size"] * 400) \div One)) \div One
            ELSE (consumed * Max(300, 450 - (c.traits["size"] * 250) \div One)) \div One
        nearbyHerbivores ==
            {other \in nearbyCreatures(S, i) :
                other.isAlive /\ ~isCarnivore(other.traits) /\ other.id # c.id}
        competitionPenalty == IF isOmnivore(c.traits) THEN 100 ELSE 60
        foodEfficiency == Max(300, One - Cardinality(nearbyHerbivores) * competitionPenalty)
    IN (afterDiet * foodEfficiency) \div One

\* A food pass that does not skip carnivores.
eatFoodAnyDiet(S, i) ==
    LET c == S.world.creatures[i]
        j == firstUnconsumed(S.world.food)
        consumed == Min(S.world.food[j].energy, foodBite(c.traits))
    IN IF ~c.isAlive \/ j = 0 THEN S
       ELSE [S EXCEPT
               !.world.food[j] = consume(@, foodBite(c.traits)),
               !.world.creatures[i] = eat(c, plantEnergy(S, i, consumed))]

eatFood(S, i) ==
    LET c == S.world.creatures[i]
        j == firstUnconsumed(S.world.food)
        consumed == Min(S.world.food[j].energy, foodBite(c.traits))
    IN IF ~c.isAlive \/ isCarnivore(c.traits) \/ j = 0 THEN S
       ELSE [S EXCEPT
               !.world.food[j] = consume(@, foodBite(c.traits)),
               !.world.creatures[i] = eat(c, plantEnergy(S, i, consumed))]

scavenge(S, i) ==
    LET c == S.world.creatures[i]
        j == firstUnconsumed(S.world.corpses)
        consumed == Min(S.world.corpses[j].energy, corpseBite(c.traits))
        extractionRate == IF isCarnivore(c.traits)
                          THEN (CARNIVORE_MEAT_EFFICIENCY * 12) \div 10
                          ELSE OMNIVORE_MEAT_EFFICIENCY
    IN IF ~c.isAlive \/ isHerbivore(c.traits) \/ j = 0 THEN S
       ELSE [S EXCEPT
               !.world.corpses[j] = consume(@, corpseBite(c.traits)),
               !.world.creatures[i] = eat(c, (consumed * extractionRate) \div One)]

getAttackDamage(traits) ==
    15 + (traits["strength"] * 35) \div One + (traits["size"] * 10) \div One

\* The indexes of the creatures the hunter at i can attack.
attackTargets(S, i) ==
    LET c == S.world.creatures[i] IN
    {j \in DOMAIN S.world.creatures :
        /\ S.world.creatures[j] \in nearbyCreatures(S, i)
        /\ S.world.creatures[j].id # c.id
        /\ S.world.creatures[j].isAlive
        /\ canHunt(c, S.world.creatures[j])}

isHunter(c) ==
    /\ c.isAlive
    /\ isCarnivore(c.traits) \/ isOmnivore(c.traits)
    /\ ~(c.traits["aggression"] < 150)

\* An attack whose reward is the damage dealt, whatever energy the prey held.
attackRewardingDamage(S, i, j) ==
    LET c == S.world.creatures[i]
        sizeEfficiency == IF c.traits["size"] > 600
                          THEN One - ((c.traits["size"] - 600) * 1500) \div One
                          ELSE One
        omnivorePenalty == IF isOmnivore(c.traits) THEN 750 ELSE One
        damage == (getAttackDamage(c.traits) * sizeEfficiency * omnivorePenalty)
                      \div (One * One)
        S1 == creatureTakesDamage(S, j, damage, "hunted")
    IN [S1 EXCEPT !.world.creatures[i] = eat(@, damage)]

attack(S, i, j) ==
    LET c == S.world.creatures[i]
        other == S.world.creatures[j]
        sizeEfficiency == IF c.traits["size"] > 600
                          THEN One - ((c.traits["size"] - 600) * 1500) \div One
                          ELSE One
        omnivorePenalty == IF isOmnivore(c.traits) THEN 750 ELSE One
        damage == (getAttackDamage(c.traits) * sizeEfficiency * omnivorePenalty)
                      \div (One * One)
        preyEnergyBefore == other.energy
        S1 == creatureTakesDamage(S, j, damage, "hunted")
        sizeAdvantage == Min(One, (other.traits["size"] * One)
                                      \div Max(300, c.traits["size"]))
        hunterResilience == IF isCarnivore(c.traits)
                            THEN One - (c.traits["stamina"] * 300) \div One
                            ELSE One
        omnivoreVulnerability == IF isOmnivore(c.traits) THEN 1250 ELSE One
        scaled(x, factor) == (x * factor) \div One
        counterDamage ==
            scaled(scaled(scaled(scaled(scaled(getAttackDamage(other.traits) * One, 150),
                                        other.traits["strength"]),
                                 sizeAdvantage),
                          hunterResilience),
                   omnivoreVulnerability) \div One
        S2 == IF other.traits["strength"] > 300
              THEN creatureTakesDamage(S1, i, counterDamage, "counterattack")
              ELSE S1
        extractionRate == IF isCarnivore(c.traits) THEN CARNIVORE_MEAT_EFFICIENCY
                          ELSE OMNIVORE_MEAT_EFFICIENCY
        energyGain == IF ~S2.world.creatures[j].isAlive
                      THEN (preyEnergyBefore * extractionRate * sizeEfficiency)
                               \div (One * One)
                      ELSE damage \div 4
    IN IF ~S2.world.creatures[i].isAlive THEN S2
       ELSE [S2 EXCEPT !.world.creatures[i] = eat(@, energyGain)]

hunt(S, i) ==
    LET targets == attackTargets(S, i) IN
    IF ~isHunter(S.world.creatures[i]) \/ targets = {} THEN S
    ELSE attack(S, i, CHOOSE j \in targets : \A k \in targets : j <= k)

\* One pass over the creatures: step applied to those the draw touches[i] selects.
collisionStep(S, i, pass) ==
    IF pass = "food" THEN eatFood(S, i)
    ELSE IF pass = "corpse" THEN scavenge(S, i)
    ELSE hunt(S, i)

RECURSIVE collisionPass(_, _, _, _)
collisionPass(S, i, touches, pass) ==
    IF i > Len(S.world.creatures) THEN S
    ELSE collisionPass(IF touches[i] THEN collisionStep(S, i, pass) ELSE S,
                       i + 1, touches, pass)

\* The three passes run on the index as the previous tick left it.
handleCollisionsStale(S, d) ==
    collisionPass(
        collisionPass(
            collisionPass(S, 1, d.eats, "food"),
            1, d.scavenges, "corpse"),
        1, d.attacks, "hunt")

\* handleCollisions(world): updateSpatialHashes, then the three passes.
handleCollisions(S, d) ==
    collisionPass(
        collisionPass(
            collisionPass(updateSpatialHashes(S), 1, d.eats, "food"),
            1, d.scavenges, "corpse"),
        1, d.attacks, "hunt")

\* The collisions the geometry can give: none where the pass skips the creature.
CollisionDraws(S) ==
    LET cs == S.world.creatures
        fresh == updateSpatialHashes(S)
        canEat(i) == /\ cs[i].isAlive /\ ~isCarnivore(cs[i].traits)
                     /\ firstUnconsumed(S.world.food) # 0
        canScavenge(i) == /\ cs[i].isAlive /\ ~isHerbivore(cs[i].traits)
                          /\ firstUnconsumed(S.world.corpses) # 0
        canAttack(i) == isHunter(cs[i]) /\ attackTargets(fresh, i) # {}
        rolls(able(_)) ==
            {f \in [1..MAX_CREATURES -> BOOLEAN] :
                \A i \in 1..MAX_CREATURES : f[i] => (i \in DOMAIN cs /\ able(i))}
    IN [eats : rolls(canEat), scavenges : rolls(canScavenge), attacks : rolls(canAttack)]

(***************************************************************************)
(* The program state.                                                      *)
(*   world          - the World object the engine holds                    *)
(*   registry       - the speciesRegistry singleton                        *)
(*   nextCreatureId - the module-level id counter of creature.ts           *)
(*   engine         - SimulationEngine.state and animationFrameId (0=null) *)
(*   frames         - the requestAnimationFrame callbacks still pending    *)
(*   pc, deltaTime  - the step of update(deltaTime) the running tick is at *)
(*   deaths         - history: the die() calls of the current tick         *)
(*   history        - history: the last World operation that completed and *)
(*                    the creatures cleanup removed since initialize that  *)
(*                    had not emigrated                                    *)
(*   probe          - the inputs and results of the function-level         *)
(*                    specifications further down                          *)
(***************************************************************************)
VARIABLES world, registry, nextCreatureId, engine, frames, pc, deltaTime,
          deaths, history, probe

vars == <<world, registry, nextCreatureId, engine, frames, pc, deltaTime,
          deaths, history, probe>>

Sim == [world |-> world, registry |-> registry,
        nextCreatureId |-> nextCreatureId, deaths |-> deaths]

Install(S) ==
    /\ world' = S.world
    /\ registry' = S.registry
    /\ nextCreatureId' = S.nextCreatureId
    /\ deaths' = S.deaths

\* Cap of the three spawn accumulators.
MaxAccumulator == 2

NoProbe == [kind |-> "none"]

\* The history of a World that was constructed and not initialized.
NoHistory == [lastOp |-> "new", n |-> 0, removedOther |-> 0, ticks |-> 0]

Init ==
    /\ world = NewWorld
    /\ registry = EmptyRegistry
    /\ nextCreatureId = 1
    /\ engine = [state |-> "stopped", animationFrameId |-> 0]
    /\ frames = {}
    /\ pc = "idle"
    /\ deltaTime = 0
    /\ deaths = <<>>
    /\ history = NoHistory
    /\ probe = NoProbe

\* The draws of initialize(n): traits and place of each founder.
FounderPicks(n) == [1..n -> [traits : FounderTraits, position : Places]]

\* The history after initialize(n).
Initialized(n) == [lastOp |-> "initialize", n |-> n, removedOther |-> 0, ticks |-> 0]

\* A tick of deltaTime dt can run to its end within the bounds of the model.
TickFits(S, dt) ==
    /\ S.world.simulationTime + dt <= MaxTime
    /\ S.nextCreatureId + (MAX_CREATURES - Len(S.world.creatures)) <= MaxCreatureIds + 1
    /\ S.world.foodSpawnAccumulator + dt * FOOD_SPAWN_RATE * S.world.foodAbundance
           <= MaxAccumulator * One
    /\ S.world.zoneSpawnAccumulator + dt * TEMP_ZONE_SPAWN_RATE <= MaxAccumulator
    /\ S.world.migrationAccumulator + dt * MIGRATION_BASE_RATE * S.world.foodAbundance
           <= MaxAccumulator * One

\* loop() entered with state = running: update(deltaTime) starts.
EnterLoop(dt) ==
    /\ pc' = "updateTime"
    /\ deltaTime' = dt

cancelFrame ==
    /\ frames' = frames \ {engine.animationFrameId}

(***************************************************************************)
(* SimulationEngine control surface.  A control call runs between frames.  *)
(***************************************************************************)
\* start(): initialize, then the first loop() runs in the same call; no
\* time has passed since lastTime was taken.
\* start, pause and resume are called between two frames, while the model
\* has ticks left to follow.
BetweenFrames ==
    /\ pc = "idle"
    /\ history.ticks < MaxTicks

\* A call that returns at its first line: only the history records it.
Returns(call) ==
    /\ history' = [history EXCEPT !.lastOp = call]
    /\ UNCHANGED <<world, registry, nextCreatureId, engine, frames, pc, deltaTime,
                   deaths, probe>>

Start ==
    /\ BetweenFrames
    /\ IF engine.state = "running" THEN Returns("start")
       ELSE /\ \E picks \in FounderPicks(INITIAL_CREATURE_COUNT) :
                  LET S == initialize([Sim EXCEPT !.deaths = <<>>], picks) IN
                  /\ S.nextCreatureId <= MaxCreatureIds + 1
                  /\ TickFits(S, 0)
                  /\ Install(S)
            /\ engine' = [engine EXCEPT !.state = "running"]
            /\ history' = [Initialized(INITIAL_CREATURE_COUNT) EXCEPT !.lastOp = "start"]
            /\ EnterLoop(0)
            /\ UNCHANGED <<frames, probe>>

PauseUnguarded ==
    /\ BetweenFrames
    /\ engine' = [state |-> "paused", animationFrameId |-> 0]
    /\ cancelFrame
    /\ history' = [history EXCEPT !.lastOp = "pause"]
    /\ UNCHANGED <<world, registry, nextCreatureId, pc, deltaTime, deaths, probe>>

Pause ==
    /\ BetweenFrames
    /\ IF engine.state # "running" THEN Returns("pause")
       ELSE /\ engine' = [state |-> "paused", animationFrameId |-> 0]
            /\ cancelFrame
            /\ history' = [history EXCEPT !.lastOp = "pause"]
            /\ UNCHANGED <<world, registry, nextCreatureId, pc, deltaTime, deaths, probe>>

Resume ==
    /\ BetweenFrames
    /\ IF engine.state # "paused" THEN Returns("resume")
       ELSE /\ TickFits(Sim, 0)
            /\ engine' = [engine EXCEPT !.state = "running"]
            /\ history' = [history EXCEPT !.lastOp = "resume"]
            /\ EnterLoop(0)
            /\ UNCHANGED <<world, registry, nextCreatureId, frames, deaths, probe>>

\* stop(): a new World replaces the old one; the registry is not touched.
Stop ==
    /\ pc = "idle"
    /\ engine' = [state |-> "stopped", animationFrameId |-> 0]
    /\ cancelFrame
    /\ world' = NewWorld
    /\ deaths' = <<>>
    /\ history' = [NoHistory EXCEPT !.lastOp = "stop"]
    /\ UNCHANGED <<registry, nextCreatureId, pc, deltaTime, probe>>

\* reset(): stop(), a new World again, and start() when it was running.
Reset ==
    /\ pc = "idle"
    /\ cancelFrame
    /\ IF engine.state = "running"
       THEN /\ \E picks \in FounderPicks(INITIAL_CREATURE_COUNT) :
                  LET S == initialize([Sim EXCEPT !.world = NewWorld, !.deaths = <<>>],
                                      picks) IN
                  /\ S.nextCreatureId <= MaxCreatureIds + 1
                  /\ TickFits(S, 0)
                  /\ Install(S)
            /\ engine' = [state |-> "running", animationFrameId |-> 0]
            /\ history' = [Initialized(INITIAL_CREATURE_COUNT) EXCEPT !.lastOp = "reset"]
            /\ EnterLoop(0)
       ELSE /\ world' = NewWorld
            /\ deaths' = <<>>
            /\ engine' = [state |-> "stopped", animationFrameId |-> 0]
            /\ history' = [NoHistory EXCEPT !.lastOp = "reset"]
            /\ UNCHANGED <<registry, nextCreatureId, pc, deltaTime>>
    /\ UNCHANGED probe

\* addHeatZone / addColdZone; the code puts no limit on the zones added by
\* hand, the model adds two at most.
AddTemperatureZone ==
    /\ pc = "idle"
    /\ Len(world.temperatureZones) < 2
    /\ \E temperature \in {30, -30} :
          world' = addTemperatureZone(world, temperature)
    /\ history' = [history EXCEPT !.lastOp = "addTemperatureZone"]
    /\ UNCHANGED <<registry, nextCreatureId, engine, frames, pc, deltaTime, deaths, probe>>

SetRandomZonesEnabled ==
    /\ pc = "idle"
    /\ \E enabled \in BOOLEAN :
          /\ enabled # world.randomZonesEnabled
          /\ world' = setRandomZonesEnabled(world, enabled)
    /\ history' = [history EXCEPT !.lastOp = "setRandomZonesEnabled"]
    /\ UNCHANGED <<registry, nextCreatureId, engine, frames, pc, deltaTime, deaths, probe>>

(***************************************************************************)
(* World operations called directly on engine.world.                       *)
(***************************************************************************)
Initialize ==
    /\ pc = "idle"
    /\ \E n \in 0..INITIAL_CREATURE_COUNT : \E picks \in FounderPicks(n) :
          LET S == initialize([Sim EXCEPT !.deaths = <<>>], picks) IN
          /\ S.nextCreatureId <= MaxCreatureIds + 1
          /\ Install(S)
          /\ history' = Initialized(n)
    /\ UNCHANGED <<engine, frames, pc, deltaTime, probe>>

\* A hunter and a grazer, as a caller of addCreature may construct them.
AddedTraits ==
    {[HerbivoreVector(800, 300, 500) EXCEPT !["aggression"] = 900, !["strength"] = 900],
     HerbivoreVector(100, 50, 100)}

\* new Creature(x, y, traits) followed by world.addCreature(creature).
AddCreature ==
    /\ pc = "idle"
    /\ nextCreatureId <= MaxCreatureIds
    /\ \E traits \in AddedTraits, position \in Places :
          Install(addCreature([Sim EXCEPT !.nextCreatureId = @ + 1],
                              NewCreature(nextCreatureId, position, traits, 0)))
    /\ history' = [history EXCEPT !.lastOp = "addCreature"]
    /\ UNCHANGED <<engine, frames, pc, deltaTime, probe>>

(***************************************************************************)
(* The game loop.  Frame is the requestAnimationFrame callback (loop); the *)
(* steps of update(deltaTime) follow in the order of the code, and         *)
(* RequestFrame is the requestAnimationFrame call that ends loop.          *)
(***************************************************************************)
Frame ==
    /\ pc = "idle"
    /\ \E id \in frames : frames' = frames \ {id}
    /\ IF engine.state = "running"
       THEN /\ history.ticks < MaxTicks
            /\ \E dt \in 1..MaxDt : TickFits(Sim, dt) /\ EnterLoop(dt)
       ELSE UNCHANGED <<pc, deltaTime>>
    /\ history' = [history EXCEPT !.lastOp = "loop"]
    /\ UNCHANGED <<world, registry, nextCreatureId, engine, deaths, probe>>

\* A step of update(): the World call, then on to the next step.
Step(from, to, S) ==
    /\ pc = from
    /\ pc' = to
    /\ Install(S)
    /\ history' = [history EXCEPT
                      !.lastOp = from,
                      !.ticks = IF from = "updateTime" THEN @ + 1 ELSE @]
    /\ UNCHANGED <<engine, frames, deltaTime, probe>>

UpdateTime ==
    Step("updateTime", "spawnFood",
         [Sim EXCEPT !.world.simulationTime = @ + deltaTime, !.deaths = <<>>])

\* The rolls the while loop of spawnFood can consume; the others are fixed.
FoodRolls ==
    LET due == world.foodSpawnAccumulator
                   + deltaTime * FOOD_SPAWN_RATE * world.foodAbundance
        n == IF Len(world.food) >= MAX_FOOD THEN 0 ELSE Min(MaxAccumulator, due \div One)
    IN {rolls \in [1..MaxAccumulator -> ClusterChoices] :
           \A j \in (n + 1)..MaxAccumulator : rolls[j] = 1}

SpawnFood ==
    \E rolls \in FoodRolls :
        Step("spawnFood", "spawnMigrants",
             [Sim EXCEPT !.world = spawnFood(@, deltaTime, rolls)])

\* A full World takes no migrant, whatever is drawn.
SpawnMigrants ==
    \E draw \in MigrationDraws :
        /\ Len(world.creatures) >= MAX_CREATURES
               => draw = CHOOSE d \in MigrationDraws : TRUE
        /\ Step("spawnMigrants", "processEmigration",
                spawnMigrants(Sim, deltaTime, draw))

\* Only a live creature near an edge rolls, and no roll succeeds in no time.
ProcessEmigration ==
    \E leaves \in [1..MAX_CREATURES -> BOOLEAN] :
        /\ \A i \in 1..MAX_CREATURES :
               leaves[i] => /\ deltaTime > 0
                            /\ i \in aliveCreatures(world)
                            /\ world.creatures[i].position = "edge"
        /\ Step("processEmigration", "spawnRandomZones",
                processEmigration(Sim, deltaTime, leaves))

SpawnRandomZones ==
    \E temperature \in {25, -25} :
        /\ ~world.randomZonesEnabled => temperature = 25
        /\ Step("spawnRandomZones", "decayTemperatureZones",
                [Sim EXCEPT !.world = spawnRandomZones(@, deltaTime, temperature)])

DecayTemperatureZones ==
    Step("decayTemperatureZones", "updateCreatureBehaviors",
         [Sim EXCEPT !.world = decayTemperatureZones(@)])

UpdateCreatureBehaviors ==
    \E S \in updateCreatureBehaviors(Sim, deltaTime) :
        /\ S.nextCreatureId <= MaxCreatureIds + 1
        /\ Step("updateCreatureBehaviors", "handleCollisions", S)

HandleCollisions ==
    \E d \in CollisionDraws(Sim) :
        Step("handleCollisions", "cleanup", handleCollisions(Sim, d))

\* The dead creatures cleanup is about to remove that did not emigrate.
deadNotEmigrated ==
    {i \in DOMAIN world.creatures :
        /\ ~world.creatures[i].isAlive
        /\ ~\E k \in DOMAIN deaths :
               deaths[k].id = world.creatures[i].id /\ deaths[k].cause = "emigrated"}

Cleanup ==
    /\ pc = "cleanup"
    /\ pc' = "onUpdate"
    /\ world' = cleanup(world)
    /\ history' = [history EXCEPT
                      !.lastOp = "cleanup",
                      !.removedOther = @ + Cardinality(deadNotEmigrated)]
    /\ UNCHANGED <<registry, nextCreatureId, engine, frames, deltaTime, deaths, probe>>

\* callbacks.onUpdate(world, deltaTime), the last statement of update(); the
\* callback reads the World.
OnUpdate ==
    /\ pc = "onUpdate"
    /\ pc' = "onRender"
    /\ UNCHANGED <<world, registry, nextCreatureId, engine, frames, deltaTime,
                   deaths, history, probe>>

\* callbacks.onRender(world), back in loop().
OnRender ==
    /\ pc = "onRender"
    /\ pc' = "requestFrame"
    /\ UNCHANGED <<world, registry, nextCreatureId, engine, frames, deltaTime,
                   deaths, history, probe>>

RequestFrame ==
    /\ pc = "requestFrame"
    /\ pc' = "idle"
    /\ LET id == CHOOSE n \in 1..(Cardinality(frames) + 2) :
                     n \notin frames /\ n # engine.animationFrameId
       IN /\ engine' = [engine EXCEPT !.animationFrameId = id]
          /\ frames' = frames \cup {id}
    /\ UNCHANGED <<world, registry, nextCreatureId, deltaTime, deaths, history, probe>>

\* The engine driven through start/pause/resume/stop/reset and the browser's
\* animation frames.
Next ==
    \/ Start \/ Pause \/ Resume \/ Stop \/ Reset
    \/ Frame
    \/ UpdateTime \/ SpawnFood \/ SpawnMigrants \/ ProcessEmigration
    \/ SpawnRandomZones \/ DecayTemperatureZones
    \/ UpdateCreatureBehaviors \/ HandleCollisions \/ Cleanup
    \/ OnUpdate \/ OnRender \/ RequestFrame

Spec == Init /\ [][Next]_vars

\* A World driven directly through its own operations, as the unit tests do.
NextWorld ==
    \/ Initialize \/ AddCreature
    \/ AddTemperatureZone \/ SetRandomZonesEnabled

SpecWorld == Init /\ [][NextWorld]_vars

\* addCreature called on the World of a running engine, between two frames.
AddCreatureRunning ==
    /\ engine.state = "running"
    /\ AddCreature

\* A started engine (start calls initialize) whose World also receives
\* addCreature calls between the frames.
NextPopulation ==
    \/ Start \/ AddCreatureRunning
    \/ Frame
    \/ UpdateTime \/ SpawnFood \/ SpawnMigrants \/ ProcessEmigration
    \/ SpawnRandomZones \/ DecayTemperatureZones
    \/ UpdateCreatureBehaviors \/ HandleCollisions \/ Cleanup
    \/ OnUpdate \/ OnRender \/ RequestFrame

SpecPopulation == Init /\ [][NextPopulation]_vars

(***************************************************************************)
(* Properties of the World and of the engine.                              *)
(***************************************************************************)
\* The creatures of the World that are alive and carry a species id.
livingMembers == {i \in aliveCreatures(world) : world.creatures[i].speciesId # 0}

\* C1: between operations the populations of the active species add up to
\* the number of creatures of the World that are alive with a species id.
SpeciesAccounting ==
    pc = "idle" => ActivePopulation(registry) = Cardinality(livingMembers)

InitializeResetsAll ==
    history.lastOp = "initialize" =>
        /\ Len(world.creatures) = history.n
        /\ Len(world.food) = INITIAL_FOOD_COUNT
        /\ world.corpses = NewWorld.corpses
        /\ world.totalBirths = NewWorld.totalBirths
        /\ world.totalDeaths = NewWorld.totalDeaths
        /\ world.generationMax = NewWorld.generationMax
        /\ world.simulationTime = NewWorld.simulationTime
        /\ world.temperatureZones = NewWorld.temperatureZones
        /\ world.foodSpawnAccumulator = NewWorld.foodSpawnAccumulator
        /\ world.zoneSpawnAccumulator = NewWorld.zoneSpawnAccumulator
        /\ world.migrationAccumulator = NewWorld.migrationAccumulator

\* C9: after the cleanup of a tick, every creature that died of age in the
\* tick while holding more than CORPSE_ENERGY_MIN energy has a corpse at its
\* position with 0.6 of that energy, created at the current simulation time.
AgedLeaveCorpse ==
    history.lastOp = "cleanup" =>
        \A k \in DOMAIN deaths :
            (deaths[k].cause = "age" /\ deaths[k].energy > CORPSE_ENERGY_MIN) =>
                \E j \in DOMAIN world.corpses :
                    /\ world.corpses[j].position = deaths[k].position
                    /\ world.corpses[j].energy = (deaths[k].energy * 6) \div 10
                    /\ world.corpses[j].createdAt = world.simulationTime

\* C10: after each cleanup totalDeaths is the number of creatures removed
\* since initialize that had not emigrated.
EmigrationNotCounted ==
    history.lastOp = "cleanup" => world.totalDeaths = history.removedOther

\* The steps of a tick in the order the specification gives them.
TickOrder ==
    <<"updateTime", "spawnFood", "spawnMigrants", "processEmigration",
      "spawnRandomZones", "decayTemperatureZones", "updateCreatureBehaviors",
      "handleCollisions", "cleanup", "onUpdate", "onRender", "requestFrame">>

\* C11: the steps of a tick run in the fixed order and a tick begins only
\* when no tick is under way; the clock moves only in the first step, food
\* is added only by spawnFood, creatures are removed and corpses created
\* only by cleanup, and the collision step works on the index rebuilt from
\* the creatures as the behaviour step left them.
FixedTickOrder ==
    [][/\ pc' # pc =>
            \/ pc = "idle" /\ pc' = TickOrder[1]
            \/ pc = TickOrder[Len(TickOrder)] /\ pc' = "idle"
            \/ \E k \in 1..(Len(TickOrder) - 1) :
                  pc = TickOrder[k] /\ pc' = TickOrder[k + 1]
       /\ world'.simulationTime # world.simulationTime => pc \in {"idle", "updateTime"}
       /\ Len(world'.food) > Len(world.food) => pc \in {"idle", "spawnFood"}
       /\ Len(world'.creatures) < Len(world.creatures) => pc \in {"idle", "cleanup"}
       /\ Len(world'.corpses) > Len(world.corpses) => pc \in {"idle", "cleanup"}
       /\ pc = "handleCollisions" => world'.creatureHash = rebuildCreatureHash(world)
      ]_vars

\* A second tick, with a creature born in it, has reached its render callback.
SecondTickRendered ==
    /\ pc = "onRender"
    /\ history.ticks >= 2
    /\ world.totalBirths > 0

\* C15: the World never holds more than MAX_CREATURES creatures, and an
\* addCreature call on a World that holds MAX_CREATURES leaves the creatures,
\* the species registry and totalBirths as they were.
PopulationCap ==
    [][/\ Len(world'.creatures) <= MAX_CREATURES
       /\ (/\ pc = "idle"
           /\ history'.lastOp = "addCreature"
           /\ nextCreatureId' = nextCreatureId + 1
           /\ Len(world.creatures) >= MAX_CREATURES)
          => /\ world'.creatures = world.creatures
             /\ registry' = registry
             /\ world'.totalBirths = world.totalBirths
      ]_vars

\* addCreature was called on a full World: the creature constructed for the
\* call is not among the creatures.
AddedToFullWorld ==
    /\ history.lastOp = "addCreature"
    /\ Len(world.creatures) = MAX_CREATURES
    /\ \A i \in DOMAIN world.creatures : world.creatures[i].id # nextCreatureId - 1

\* C12: a tick begins only in state running, or by a start() or resume()
\* that puts the engine in state running, and every step of a tick runs in
\* state running; pause() changes nothing unless the state is running,
\* resume() nothing unless it is paused, start() nothing when it is running.
HaltedUntilResumed ==
    [][/\ pc # "idle" => engine.state = "running"
       /\ (pc = "idle" /\ pc' # "idle") =>
            /\ engine'.state = "running"
            /\ engine.state = "running" \/ history'.lastOp \in {"start", "resume"}
       /\ \/ history'.lastOp = "pause" /\ engine.state # "running"
          \/ history'.lastOp = "resume" /\ engine.state # "paused"
          \/ history'.lastOp = "start" /\ engine.state = "running"
          => UNCHANGED <<world, registry, nextCreatureId, engine, frames, pc, deltaTime>>
      ]_vars

\* pause() has returned after at least one tick: the engine is paused and no
\* frame is pending.
PausedAfterTick ==
    /\ engine.state = "paused"
    /\ history.lastOp = "pause"
    /\ history.ticks >= 1
    /\ frames = {}

\* The variables of the World and of the engine as they are at construction,
\* for the specifications that exercise one class or function by itself.
Untouched ==
    /\ world = NewWorld
    /\ registry = EmptyRegistry
    /\ nextCreatureId = 1
    /\ engine = [state |-> "stopped", animationFrameId |-> 0]
    /\ frames = {}
    /\ pc = "idle"
    /\ deltaTime = 0
    /\ deaths = <<>>
    /\ history = NoHistory

(***************************************************************************)
(* SpatialHash (world.ts), with integer coordinates.  probe holds the      *)
(* hash under test:                                                        *)
(*   grid     - the Map from cell key to the entities of the cell          *)
(*   inserted - every entity inserted since the last clear                 *)
(*   query    - the arguments of the last getNearby                        *)
(*   nearby   - the entities that getNearby returned                       *)
(***************************************************************************)
\* Cell size of the hash under test, the span of the coordinates that are
\* tried (-CoordSpan..CoordSpan by -RowSpan..RowSpan), the largest radius
\* and the number of entities inserted.
CellSize == 2
CoordSpan == 2
RowSpan == 1
MaxRadius == 2
MaxEntities == 2

\* The cell of a point: Math.floor of each coordinate over the cell size.
getKey(x, y) == <<x \div CellSize, y \div CellSize>>

insert(grid, entity) ==
    LET key == getKey(entity.x, entity.y) IN
    IF key \in DOMAIN grid
    THEN [grid EXCEPT ![key] = Append(@, entity)]
    ELSE grid @@ (key :> <<entity>>)

\* The entities getNearby collects, as a set: the order is not modelled.
getNearby(grid, x, y, radius) ==
    LET cellRadius == (radius + CellSize - 1) \div CellSize + 1
        centerCol == x \div CellSize
        centerRow == y \div CellSize
        cell(col, row) ==
            IF col < 0 \/ row < 0 THEN {}
            ELSE IF <<col, row>> \notin DOMAIN grid THEN {}
            ELSE {grid[<<col, row>>][k] : k \in DOMAIN grid[<<col, row>>]}
    IN UNION {cell(centerCol + dc, centerRow + dr) :
                 dc \in -cellRadius..cellRadius, dr \in -cellRadius..cellRadius}

EmptyHash ==
    [kind |-> "hash", grid |-> <<>>, inserted |-> {},
     queried |-> FALSE, query |-> [x |-> 0, y |-> 0, radius |-> 0], nearby |-> {}]

InitHash == Untouched /\ probe = EmptyHash

HashInsert ==
    /\ Cardinality(probe.inserted) < MaxEntities
    /\ \E x \in -CoordSpan..CoordSpan, y \in -RowSpan..RowSpan :
          LET entity == [id |-> Cardinality(probe.inserted) + 1, x |-> x, y |-> y] IN
          probe' = [EmptyHash EXCEPT !.grid = insert(probe.grid, entity),
                                     !.inserted = probe.inserted \cup {entity}]
    /\ UNCHANGED <<world, registry, nextCreatureId, engine, frames, pc, deltaTime,
                   deaths, history>>

HashClear ==
    /\ probe.inserted # {}
    /\ probe' = EmptyHash
    /\ UNCHANGED <<world, registry, nextCreatureId, engine, frames, pc, deltaTime,
                   deaths, history>>

HashGetNearby ==
    /\ \E x \in -CoordSpan..CoordSpan, y \in -RowSpan..RowSpan, radius \in 0..MaxRadius :
          probe' = [probe EXCEPT
                      !.queried = TRUE,
                      !.query = [x |-> x, y |-> y, radius |-> radius],
                      !.nearby = getNearby(probe.grid, x, y, radius)]
    /\ UNCHANGED <<world, registry, nextCreatureId, engine, frames, pc, deltaTime,
                   deaths, history>>

NextHash == HashInsert \/ HashClear \/ HashGetNearby

SpecHash == InitHash /\ [][NextHash]_vars

\* C2: getNearby(x, y, r) returns every inserted entity whose distance to
\* (x, y) is at most r.
NearbySound ==
    probe.queried =>
        \A e \in probe.inserted :
            (e.x - probe.query.x) * (e.x - probe.query.x)
              + (e.y - probe.query.y) * (e.y - probe.query.y)
                <= probe.query.radius * probe.query.radius
            => e \in probe.nearby

(***************************************************************************)
(* Diet classification by itself: probe holds a dietPreference and, once   *)
(* Classify has run, what the three getters and getDietLabel say of it.    *)
(***************************************************************************)
DietInput(v) == [kind |-> "diet", dietPreference |-> v, classified |-> FALSE]

InitDiet == Untouched /\ \E v \in 0..One : probe = DietInput(v)

Classify ==
    /\ ~probe.classified
    /\ LET traits == TraitVector(500, probe.dietPreference, 500, 500) IN
       probe' = [kind |-> "diet",
                 dietPreference |-> probe.dietPreference,
                 classified |-> TRUE,
                 isHerbivore |-> isHerbivore(traits),
                 isOmnivore |-> isOmnivore(traits),
                 isCarnivore |-> isCarnivore(traits),
                 label |-> getDietLabel(probe.dietPreference)]
    /\ UNCHANGED <<world, registry, nextCreatureId, engine, frames, pc, deltaTime,
                   deaths, history>>

SpecDiet == InitDiet /\ [][Classify]_vars

\* C6: exactly one of the three getters holds: isHerbivore below 0.35,
\* isOmnivore from 0.35 to 0.65, isCarnivore above 0.65, and getDietLabel
\* names the same class.
DietPartition ==
    probe.classified =>
        LET v == probe.dietPreference IN
        /\ probe.isHerbivore <=> v < 350
        /\ probe.isOmnivore <=> (350 <= v /\ v <= 650)
        /\ probe.isCarnivore <=> v > 650
        /\ Cardinality({g \in {"h", "o", "c"} :
                           \/ g = "h" /\ probe.isHerbivore
                           \/ g = "o" /\ probe.isOmnivore
                           \/ g = "c" /\ probe.isCarnivore}) = 1
        /\ probe.label = "Herbivore" <=> probe.isHerbivore
        /\ probe.label = "Omnivore" <=> probe.isOmnivore
        /\ probe.label = "Carnivore" <=> probe.isCarnivore

\* The boundary value 0.35 has been classified, as an omnivore.
DietBoundaryClassified ==
    /\ probe.classified
    /\ probe.dietPreference = 350
    /\ probe.isOmnivore
    /\ probe.label = "Omnivore"

(***************************************************************************)
(* Mutation and crossover by themselves.  probe holds the arguments of one *)
(* call; after the call it holds the result as well, and the argument      *)
(* vectors as the call left them (the functions build a new object and     *)
(* assign to no field of an argument).                                     *)
(***************************************************************************)
\* The values a trait of an argument vector takes, the mutation rates and
\* the stress levels that are tried (thousandths).
ProbeValues == {0, 500, One}
ProbeRates == {0, 1, 2 * One}
ProbeStress == {0, 500, One}

ProbeVectors == {TraitVector(base, diet, base, base) : base, diet \in ProbeValues}

\* The draws of one mutateTrait call that are tried.
TraitDraws == [large : BOOLEAN, direction : {-1, 1}, u : {0, 500, 999}]

\* One draw for the diet-linked traits and one for the others.
SplitDraws(a, b) == [k \in TraitNames |-> IF k \in DietLinkedTraits THEN a ELSE b]

InitGenetics ==
    /\ Untouched
    /\ \E traits \in ProbeVectors, other \in {TraitVector(0, 0, 0, 0), TraitVector(One, One, One, One)},
          rate \in ProbeRates, stress \in ProbeStress :
          probe = [kind |-> "genetics", op |-> "none", traits |-> traits, other |-> other,
                   mutationRate |-> rate, hungerStress |-> stress]

\* The probe after a call that returned `result`.
Returned(op, result) ==
    [kind |-> "genetics", op |-> op, traits |-> probe.traits, other |-> probe.other,
     mutationRate |-> probe.mutationRate, hungerStress |-> probe.hungerStress,
     result |-> result, traitsAfter |-> probe.traits, otherAfter |-> probe.other]

CallMutateTraits ==
    /\ probe.op = "none"
    /\ \E a, b \in TraitDraws :
          probe' = Returned("mutateTraits",
                            mutateTraits(probe.traits, probe.mutationRate, SplitDraws(a, b)))
    /\ UNCHANGED <<world, registry, nextCreatureId, engine, frames, pc, deltaTime,
                   deaths, history>>

CallMutateTraitsWithStress ==
    /\ probe.op = "none"
    /\ \E a, b \in TraitDraws :
          probe' = Returned("mutateTraitsWithStress",
                            mutateTraitsWithStress(probe.traits, probe.hungerStress,
                                                   probe.mutationRate, SplitDraws(a, b)))
    /\ UNCHANGED <<world, registry, nextCreatureId, engine, frames, pc, deltaTime,
                   deaths, history>>

CallCrossoverTraits ==
    /\ probe.op = "none"
    /\ \E a, b \in TraitDraws, p, q \in {0, 400, 800} :
          probe' = Returned("crossoverTraits",
                            crossoverTraits(probe.traits, probe.other, probe.mutationRate,
                                            SplitDraws(p, q), SplitDraws(a, b)))
    /\ UNCHANGED <<world, registry, nextCreatureId, engine, frames, pc, deltaTime,
                   deaths, history>>

NextGenetics == CallMutateTraits \/ CallMutateTraitsWithStress \/ CallCrossoverTraits

SpecGenetics == InitGenetics /\ [][NextGenetics]_vars

\* C5: mutateTraits, mutateTraitsWithStress and crossoverTraits return a
\* vector of 14 fields that all lie in [0, 1], and leave the vectors they
\* were given as they were.
TraitClosure ==
    probe.op # "none" =>
        /\ DOMAIN probe.result = TraitNames
        /\ Cardinality(TraitNames) = 14
        /\ \A k \in TraitNames : 0 <= probe.result[k] /\ probe.result[k] <= One
        /\ probe.traitsAfter = probe.traits
        /\ probe.otherAfter = probe.other

\* A mutation at twice the full range has pushed a trait past 1 and another
\* past 0, and both were clamped.
TraitClosureReached ==
    /\ probe.op = "mutateTraitsWithStress"
    /\ probe.mutationRate = 2 * One
    /\ probe.hungerStress = One
    /\ \E k \in TraitNames : probe.traits[k] = 500 /\ probe.result[k] = One
    /\ \E k \in TraitNames : probe.traits[k] = 500 /\ probe.result[k] = 0

(***************************************************************************)
(* Creature objects by themselves, as the unit tests drive them.  probe    *)
(* holds                                                                   *)
(*   creatures - the objects under test; the first belongs to a species,   *)
(*               the second does or was only constructed (speciesId null)  *)
(*   offspring - the objects the last reproduce call returned              *)
(*   op, i, amount, before - the last call, the index of its receiver, its *)
(*               numeric argument and the receiver as it was before        *)
(*   calls     - the number of calls made                                  *)
(***************************************************************************)
\* Number of calls made on the objects under test.
MaxCalls == 3

\* maxEnergy 150 (size 0.5); a small grazer; a hunter.
ProbeCreatureTraits ==
    {HerbivoreVector(100, 50, 100),
     [HerbivoreVector(800, 300, 500) EXCEPT !["aggression"] = 900, !["strength"] = 900]}

\* The amounts eat and takeDamage are called with.
EatAmounts == {0, 70}
DamageAmounts == {0, 30, 200}

\* The objects under test seen as a simulation, for the operators above.
ProbeSim ==
    [world |-> [NewWorld EXCEPT !.creatures = probe.creatures],
     registry |-> registry,
     nextCreatureId |-> nextCreatureId,
     deaths |-> <<>>]

InitCreature ==
    /\ \E traits \in ProbeCreatureTraits, member \in BOOLEAN :
          LET first == NewCreature(1, "interior", HerbivoreVector(100, 500, 500), 0)
              second == NewCreature(2, "interior", traits, 0)
              S0 == [world |-> NewWorld, registry |-> EmptyRegistry,
                     nextCreatureId |-> 3, deaths |-> <<>>]
              S1 == addCreature(S0, first)
              S2 == IF member THEN addCreature(S1, second)
                    ELSE [S1 EXCEPT !.world.creatures = Append(@, second)]
          IN /\ registry = S2.registry
             /\ probe = [kind |-> "creature", creatures |-> S2.world.creatures,
                         offspring |-> {}, op |-> "new", i |-> 1, amount |-> 0,
                         before |-> first, calls |-> 0]
    /\ world = NewWorld
    /\ nextCreatureId = 3
    /\ engine = [state |-> "stopped", animationFrameId |-> 0]
    /\ frames = {}
    /\ pc = "idle"
    /\ deltaTime = 0
    /\ deaths = <<>>
    /\ history = NoHistory

\* The state after a call on probe.creatures[i] that left the simulation S
\* and returned the creatures in offspring.
Called(op, i, amount, S, offspring) ==
    /\ probe.calls < MaxCalls
    /\ probe' = [kind |-> "creature", creatures |-> S.world.creatures,
                 offspring |-> offspring, op |-> op, i |-> i, amount |-> amount,
                 before |-> probe.creatures[i], calls |-> probe.calls + 1]
    /\ registry' = S.registry
    /\ nextCreatureId' = S.nextCreatureId
    /\ UNCHANGED <<world, engine, frames, pc, deltaTime, deaths, history>>

CreatureEat ==
    \E i \in DOMAIN probe.creatures, foodEnergy \in EatAmounts :
        Called("eat", i, foodEnergy,
               [ProbeSim EXCEPT !.world.creatures[i] = eat(@, foodEnergy)], {})

CreatureTakeDamage ==
    \E i \in DOMAIN probe.creatures, amount \in DamageAmounts :
        Called("takeDamage", i, amount,
               creatureTakesDamage(ProbeSim, i, amount, "damage"), {})

CreatureDie ==
    \E i \in DOMAIN probe.creatures :
        Called("die", i, 0, creatureDies(ProbeSim, i, "die"), {})

CreatureUpdate ==
    \E i \in DOMAIN probe.creatures, dt \in 0..MaxDt, expired \in BOOLEAN :
        /\ expired => dt > 0
        /\ Called("update", i, dt,
                  creatureUpdates(ProbeSim, i, dt,
                                  [drain |-> DrainPerUpdate * dt, expired |-> expired,
                                   place |-> "interior"]), {})

\* The draw of reproduceAsexual / reproduceSexual that changes every trait
\* the most, and the one that changes none.
ProbeMutations ==
    {NoDeviation, [k \in TraitNames |-> [large |-> TRUE, direction |-> -1, u |-> 999]]}

CreatureReproduceAsexual ==
    \E i \in DOMAIN probe.creatures, currentTime \in 0..MaxTime, draws \in ProbeMutations :
        LET c == probe.creatures[i]
            offspring == asexualOffspring(c, nextCreatureId, currentTime, MUTATION_RATE,
                                          draws, c.position)
        IN IF canReproduce(c, currentTime)
           THEN Called("reproduceAsexual", i, currentTime,
                       [ProbeSim EXCEPT
                          !.world.creatures[i] = asexualParent(c, currentTime),
                          !.nextCreatureId = @ + 1],
                       {offspring})
           ELSE Called("reproduceAsexual", i, currentTime, ProbeSim, {})

CreatureReproduceSexual ==
    \E i, j \in DOMAIN probe.creatures, currentTime \in 0..MaxTime,
       offspringCount \in 1..MaxOffspringDraw, draws \in ProbeMutations :
        LET c == probe.creatures[i]
            partner == probe.creatures[j]
            child == sexualOffspring(c, partner, nextCreatureId, currentTime,
                                     MUTATION_RATE, [k \in TraitNames |-> 800],
                                     draws, c.position)
        IN /\ i # j
           /\ offspringCount <= maxOffspring(c, partner)
           /\ IF canReproduce(c, currentTime) /\ canReproduce(partner, currentTime)
              THEN Called("reproduceSexual", i, currentTime,
                          [ProbeSim EXCEPT
                             !.world.creatures[i] = sexualParent(c, currentTime, offspringCount),
                             !.world.creatures[j] = sexualParent(partner, currentTime,
                                                                 offspringCount),
                             !.nextCreatureId = @ + offspringCount],
                          {[child EXCEPT !.id = @ + n] : n \in 0..(offspringCount - 1)})
              ELSE Called("reproduceSexual", i, currentTime, ProbeSim, {})

NextCreature ==
    \/ CreatureEat \/ CreatureTakeDamage \/ CreatureDie \/ CreatureUpdate
    \/ CreatureReproduceAsexual \/ CreatureReproduceSexual

SpecCreature == InitCreature /\ [][NextCreature]_vars

\* The receiver of the last call as the call left it.
receiver == probe.creatures[probe.i]

\* C3: after every operation each creature, offspring included, has
\* 0 <= energy <= maxEnergy(traits), and eat(x) leaves
\* energy = min(maxEnergy, energy + x).
EnergyBound ==
    /\ \A c \in {probe.creatures[i] : i \in DOMAIN probe.creatures} \cup probe.offspring :
          0 <= c.energy /\ c.energy <= maxEnergy(c.traits)
    /\ probe.op = "eat" =>
          receiver.energy
              = Min(maxEnergy(receiver.traits), probe.before.energy + probe.amount)

\* eat(70) on a creature with energy 100 and maxEnergy 150 has left 150.
EatClamped ==
    /\ probe.op = "eat"
    /\ probe.amount = 70
    /\ probe.before.energy = 100
    /\ maxEnergy(receiver.traits) = 150
    /\ receiver.energy = 150

\* The deaths the registry holds for a species, against the creatures under
\* test that were assigned to it.
deadOf(s) ==
    {i \in DOMAIN probe.creatures :
        probe.creatures[i].speciesId = s /\ ~probe.creatures[i].isAlive}

aliveOf(s) ==
    {i \in DOMAIN probe.creatures :
        probe.creatures[i].speciesId = s /\ probe.creatures[i].isAlive}

\* C4: takeDamage(x) with x >= energy leaves the creature dead with energy
\* 0, with x < energy it leaves a live creature alive with energy - x, and
\* the registry counts the death of each creature of a species once however
\* often takeDamage or die is called on it.
DamageKillsOnce ==
    /\ probe.op = "takeDamage" =>
          IF probe.amount >= probe.before.energy
          THEN ~receiver.isAlive /\ receiver.energy = 0
          ELSE /\ receiver.energy = probe.before.energy - probe.amount
               /\ receiver.isAlive = probe.before.isAlive
    /\ \A s \in DOMAIN registry.species :
          /\ registry.species[s].totalDeaths = Cardinality(deadOf(s))
          /\ registry.species[s].population = Cardinality(aliveOf(s))

\* takeDamage has been called again on a creature of a species that was
\* already dead, and the species still counts one death.
DamagedAgain ==
    /\ probe.op = "takeDamage"
    /\ probe.amount >= probe.before.energy
    /\ ~probe.before.isAlive
    /\ probe.before.speciesId # 0
    /\ registry.species[probe.before.speciesId].totalDeaths = 1

(***************************************************************************)
(* The configuration setters of the engine by themselves.  A JavaScript    *)
(* number is a finite value or NaN; speed, foodAbundance and mutationRate  *)
(* are in thousandths, the temperature is in degrees.  probe holds the     *)
(* four settings, the last setter called and its argument.                 *)
(***************************************************************************)
TEMPERATURE_MIN == -20
TEMPERATURE_MAX == 50

Number(v) == [isNaN |-> FALSE, value |-> v]

NaN == [isNaN |-> TRUE, value |-> 0]

\* Math.min and Math.max return NaN when an argument is NaN.
MathMin(a, b) ==
    IF a.isNaN \/ b.isNaN THEN NaN ELSE Number(Min(a.value, b.value))

MathMax(a, b) ==
    IF a.isNaN \/ b.isNaN THEN NaN ELSE Number(Max(a.value, b.value))

setTemperature(temp) ==
    MathMax(Number(TEMPERATURE_MIN), MathMin(Number(TEMPERATURE_MAX), temp))

setFoodAbundance(multiplier) ==
    MathMax(Number(0), MathMin(Number(3 * One), multiplier))

setMutationRate(rate) ==
    MathMax(Number(0), MathMin(Number(300), rate))

setSpeed(speed) ==
    MathMax(Number(100), MathMin(Number(10 * One), speed))

\* The arguments the setters are called with: values below, in and above
\* each range, and NaN.
SettingInputs ==
    {NaN} \cup {Number(v) : v \in {-100000, -20, 0, 50, 100, 300, 3000, 10000, 100000}}

InitSettings ==
    /\ Untouched
    /\ probe = [kind |-> "settings",
                speed |-> Number(One),
                globalTemperature |-> Number(NewWorld.globalTemperature),
                foodAbundance |-> Number(NewWorld.foodAbundance),
                mutationRate |-> Number(NewWorld.mutationRate),
                call |-> "none", input |-> Number(0)]

SetTemperature ==
    \E x \in SettingInputs :
        /\ probe' = [probe EXCEPT !.globalTemperature = setTemperature(x),
                                  !.call = "setTemperature", !.input = x]
        /\ UNCHANGED <<world, registry, nextCreatureId, engine, frames, pc, deltaTime,
                       deaths, history>>

SetFoodAbundance ==
    \E x \in SettingInputs :
        /\ probe' = [probe EXCEPT !.foodAbundance = setFoodAbundance(x),
                                  !.call = "setFoodAbundance", !.input = x]
        /\ UNCHANGED <<world, registry, nextCreatureId, engine, frames, pc, deltaTime,
                       deaths, history>>

SetMutationRate ==
    \E x \in SettingInputs :
        /\ probe' = [probe EXCEPT !.mutationRate = setMutationRate(x),
                                  !.call = "setMutationRate", !.input = x]
        /\ UNCHANGED <<world, registry, nextCreatureId, engine, frames, pc, deltaTime,
                       deaths, history>>

SetSpeed ==
    \E x \in SettingInputs :
        /\ probe' = [probe EXCEPT !.speed = setSpeed(x),
                                  !.call = "setSpeed", !.input = x]
        /\ UNCHANGED <<world, registry, nextCreatureId, engine, frames, pc, deltaTime,
                       deaths, history>>

NextSettings == SetTemperature \/ SetFoodAbundance \/ SetMutationRate \/ SetSpeed

SpecSettings == InitSettings /\ [][NextSettings]_vars

InRange(x, lo, hi) == ~x.isNaN /\ lo <= x.value /\ x.value <= hi

\* C13: whatever number a setter is called with, speed stays in [0.1, 10],
\* globalTemperature in [TEMPERATURE_MIN, TEMPERATURE_MAX], foodAbundance in
\* [0, 3] and mutationRate in [0, 0.3], and an argument inside the range is
\* stored as it is.
SettersClamp ==
    /\ InRange(probe.speed, 100, 10 * One)
    /\ InRange(probe.globalTemperature, TEMPERATURE_MIN, TEMPERATURE_MAX)
    /\ InRange(probe.foodAbundance, 0, 3 * One)
    /\ InRange(probe.mutationRate, 0, 300)
    /\ probe.call = "setSpeed" /\ InRange(probe.input, 100, 10 * One)
          => probe.speed = probe.input
    /\ probe.call = "setTemperature"
             /\ InRange(probe.input, TEMPERATURE_MIN, TEMPERATURE_MAX)
          => probe.globalTemperature = probe.input
    /\ probe.call = "setFoodAbundance" /\ InRange(probe.input, 0, 3 * One)
          => probe.foodAbundance = probe.input
    /\ probe.call = "setMutationRate" /\ InRange(probe.input, 0, 300)
          => probe.mutationRate = probe.input

(***************************************************************************)
(* The food of a World by itself: initialize, setFoodAbundance, spawnFood, *)
(* food eaten whole and cleanup.  probe holds, of the last spawnFood call, *)
(* the food count and the accumulator as its first loop test found them    *)
(* and the first draw.                                                     *)
(***************************************************************************)
FoodAbundances == {0, 250, One, 3 * One}

InitFood == Untouched /\ probe = [kind |-> "food", count |-> 0, due |-> 0, roll |-> 1]

FoodCall(op, w) ==
    /\ world' = w
    /\ history' = [history EXCEPT !.lastOp = op]
    /\ UNCHANGED <<registry, nextCreatureId, engine, frames, pc, deltaTime, deaths>>

FoodInitialize ==
    /\ FoodCall("initialize", initialize(Sim, <<>>).world)
    /\ UNCHANGED probe

FoodSetAbundance ==
    /\ \E a \in FoodAbundances :
          FoodCall("setFoodAbundance",
                   [world EXCEPT !.foodAbundance = setFoodAbundance(Number(a)).value])
    /\ UNCHANGED probe

\* spawnFood(dt) with the draws of its loop; the accumulator stays within
\* the bound of the model.
FoodSpawn ==
    \E dt \in 0..MaxDt, rolls \in [1..MaxAccumulator -> ClusterChoices] :
        /\ world.foodSpawnAccumulator + dt * FOOD_SPAWN_RATE * world.foodAbundance
               <= MaxAccumulator * One
        /\ FoodCall("spawnFood", spawnFood(world, dt, rolls))
        /\ probe' = [kind |-> "food", count |-> Len(world.food),
                     due |-> world.foodSpawnAccumulator
                                 + dt * FOOD_SPAWN_RATE * world.foodAbundance,
                     roll |-> rolls[1]]

\* Food.consume by a creature whose bite takes all the item holds.
FoodEaten ==
    /\ \E i \in unconsumedFood(world) :
          FoodCall("consume",
                   [world EXCEPT !.food[i] = [energy |-> 0, isConsumed |-> TRUE]])
    /\ UNCHANGED probe

FoodCleanup ==
    /\ FoodCall("cleanup", cleanup(world))
    /\ UNCHANGED probe

NextFood == FoodInitialize \/ FoodSetAbundance \/ FoodSpawn \/ FoodEaten \/ FoodCleanup

SpecFood == InitFood /\ [][NextFood]_vars

\* C14: after initialize and after every spawnFood(dt), whatever dt, the
\* foodAbundance and the single and cluster draws, the World holds MAX_FOOD
\* food items at most.
FoodCap == Len(world.food) <= MAX_FOOD

\* spawnFood drew a cluster larger than the room left and filled the World
\* to MAX_FOOD exactly.
ClusterCutAtCap ==
    /\ history.lastOp = "spawnFood"
    /\ probe.count < MAX_FOOD
    /\ probe.due >= One
    /\ probe.count + probe.roll > MAX_FOOD
    /\ Len(world.food) = MAX_FOOD

(***************************************************************************)
(* spawnMigrants by itself, under a configuration large enough for five    *)
(* herbivores to live below 80% of MAX_CREATURES.  The World is populated  *)
(* with grazers and hunters and holds some food; probe holds what the call *)
(* found: the creature count, the alive and herbivore counts, the food     *)
(* count and the migration accumulator with this call's share added.       *)
(***************************************************************************)
MigrationMaxCreatures == 8
MigrationMaxFood == 2

MigrationConfig ==
    [MAX_CREATURES |-> MigrationMaxCreatures, MAX_FOOD |-> MigrationMaxFood]

Grazer == HerbivoreVector(100, 50, 100)

Hunter ==
    [HerbivoreVector(800, 300, 500) EXCEPT !["aggression"] = 900, !["strength"] = 900]

\* new Creature and addCreature for each vector, under MigrationConfig (the
\* vectors are fewer than its MAX_CREATURES).
RECURSIVE populate(_, _)
populate(S, traits) ==
    IF traits = <<>> THEN S
    ELSE populate([pushWithSpecies(S, "interior", Head(traits), 0)
                      EXCEPT !.world.totalBirths = @ + 1],
                  Tail(traits))

\* A World of h grazers, c hunters and f food items.
Populated(h, c, f) ==
    LET S0 == [world |-> NewWorld, registry |-> EmptyRegistry, nextCreatureId |-> 1,
               deaths |-> <<>>]
        S1 == populate(S0, [i \in 1..(h + c) |-> IF i <= h THEN Grazer ELSE Hunter])
    IN [S1 EXCEPT !.world.food = [i \in 1..f |-> NewFood]]

InitMigration ==
    /\ \E h \in 0..(MigrationMaxCreatures - 2), c \in 0..1, f \in 0..MigrationMaxFood :
          LET S == Populated(h, c, f) IN
          /\ world = S.world
          /\ registry = S.registry
          /\ nextCreatureId = S.nextCreatureId
    /\ engine = [state |-> "stopped", animationFrameId |-> 0]
    /\ frames = {}
    /\ pc = "idle"
    /\ deltaTime = 0
    /\ deaths = <<>>
    /\ history = NoHistory
    /\ probe = [kind |-> "migration", called |-> FALSE, count |-> 0, alive |-> 0,
                herbivores |-> 0, foodCount |-> 0, due |-> 0]

MigrationCall ==
    /\ ~probe.called
    /\ \E dt \in 0..MaxDt, draw \in MigrationDraws :
          /\ Install(spawnMigrantsUnder(MigrationConfig, Sim, dt, draw))
          /\ probe' = [kind |-> "migration", called |-> TRUE,
                       count |-> Len(world.creatures),
                       alive |-> Cardinality(aliveCreatures(world)),
                       herbivores |-> herbivoreCount(world),
                       foodCount |-> Cardinality(unconsumedFood(world)),
                       due |-> world.migrationAccumulator
                                   + dt * MIGRATION_BASE_RATE * world.foodAbundance]
    /\ history' = [history EXCEPT !.lastOp = "spawnMigrants"]
    /\ UNCHANGED <<engine, frames, pc, deltaTime>>

SpecMigration == InitMigration /\ [][MigrationCall]_vars

\* The call found the conditions of regular migration and a migration due.
RegularMigrationRan ==
    /\ probe.foodCount * One >= MIGRATION_FOOD_THRESHOLD * MigrationMaxFood
    /\ probe.alive * One <= MIGRATION_POP_THRESHOLD * MigrationMaxCreatures
    /\ probe.due >= One

ExtinctWorlds ==
    {[NewWorld EXCEPT !.food = [i \in 1..f |-> NewFood],
                      !.foodAbundance = a,
                      !.foodSpawnAccumulator = acc] :
        f \in 0..MAX_FOOD, a \in {500, One, 2 * One}, acc \in {0, 500}}

InitExtinct ==
    /\ world \in ExtinctWorlds
    /\ registry = EmptyRegistry
    /\ nextCreatureId = 1
    /\ TickFits([world |-> world, registry |-> registry, nextCreatureId |-> 1,
                 deaths |-> <<>>], 1)
    /\ engine = [state |-> "running", animationFrameId |-> 1]
    /\ frames = {1}
    /\ pc = "idle"
    /\ deltaTime = 0
    /\ deaths = <<>>
    /\ history = Initialized(0)
    /\ probe = NoProbe

\* The game loop without calls of the control surface.
NextExtinct ==
    \/ Frame
    \/ UpdateTime \/ SpawnFood \/ SpawnMigrants \/ ProcessEmigration
    \/ SpawnRandomZones \/ DecayTemperatureZones
    \/ UpdateCreatureBehaviors \/ HandleCollisions \/ Cleanup
    \/ OnUpdate \/ OnRender \/ RequestFrame

\* Control leaves the step of the tick it is at.
LoopAdvances ==
    \/ \E k \in 1..(Len(TickOrder) - 1) : pc = TickOrder[k] /\ pc' = TickOrder[k + 1]
    \/ pc = TickOrder[Len(TickOrder)] /\ pc' = "idle"

SpecExtinct ==
    InitExtinct /\ [][NextExtinct]_vars /\ WF_vars(Frame) /\ WF_pc(LoopAdvances)

\* C17: a World without a living creature, in a running engine with
\* migration enabled and foodAbundance > 0, is eventually followed by a
\* World with a living creature.
ExtinctionCounteracted ==
    (history.ticks = 0 /\ aliveCreatures(world) = {} /\ world.foodAbundance > 0)
        ~> (aliveCreatures(world) # {})

\* The rescue path has repopulated the World: herbivores that entered by
\* migration live in it.
Repopulated ==
    /\ history.ticks >= 1
    /\ aliveCreatures(world) # {}
    /\ world.totalBirths = Len(world.creatures)
    /\ \A i \in DOMAIN world.creatures : isHerbivore(world.creatures[i].traits)

(***************************************************************************)
(* The species registry by itself: assignSpecies for a creature just       *)
(* constructed, recordDeath, reset.  probe holds the last call: op, the    *)
(* creature id and, for assignSpecies, the traits.                         *)
(***************************************************************************)
\* Two vectors within SPECIES_THRESHOLD of each other and one far from both.
RegistryTraits ==
    {HerbivoreVector(100, 50, 100), HerbivoreVector(150, 50, 100),
     [HerbivoreVector(800, 300, 500) EXCEPT !["aggression"] = 900, !["strength"] = 900]}

InitRegistry ==
    /\ Untouched
    /\ probe = [kind |-> "registry", op |-> "none", id |-> 0,
                traits |-> HerbivoreVector(100, 50, 100)]

RegistryAssign ==
    /\ nextCreatureId <= MaxCreatureIds
    /\ \E traits \in RegistryTraits :
          /\ registry' = assignSpecies(registry, nextCreatureId, traits, 0, 0)
          /\ probe' = [probe EXCEPT !.op = "assignSpecies", !.id = nextCreatureId,
                                    !.traits = traits]
    /\ nextCreatureId' = nextCreatureId + 1
    /\ UNCHANGED <<world, engine, frames, pc, deltaTime, deaths, history>>

RegistryRecordDeath ==
    /\ \E id \in 1..MaxCreatureIds :
          /\ registry' = recordDeath(registry, id)
          /\ probe' = [probe EXCEPT !.op = "recordDeath", !.id = id]
    /\ UNCHANGED <<world, nextCreatureId, engine, frames, pc, deltaTime, deaths, history>>

RegistryReset ==
    /\ registry' = EmptyRegistry
    /\ probe' = [probe EXCEPT !.op = "reset", !.id = 0]
    /\ UNCHANGED <<world, nextCreatureId, engine, frames, pc, deltaTime, deaths, history>>

NextRegistry == RegistryAssign \/ RegistryRecordDeath \/ RegistryReset

SpecRegistry == InitRegistry /\ [][NextRegistry]_vars

\* The active species whose prototype is within the threshold of traits.
activeWithin(reg, traits) ==
    {s \in getActiveSpecies(reg) :
        geneticDistance(traits, reg.species[s].prototypeTraits) < ThresholdSum}

\* C18: findMatchingSpecies never returns a species of population 0; until
\* reset every species stays in the registry and a species of population 0
\* keeps its record as it is (population 0, totalBirths frozen);
\* assignSpecies never chooses it, and a creature within the threshold of
\* no active species founds a species with a new id, however close an
\* extinct prototype is.
ExtinctNeverReused ==
    [][/\ \A traits \in RegistryTraits :
              findMatchingSpecies(registry, traits) # 0 =>
                  registry.species[findMatchingSpecies(registry, traits)].population > 0
       /\ probe'.op # "reset" =>
              \A s \in DOMAIN registry.species :
                  /\ s \in DOMAIN registry'.species
                  /\ registry.species[s].population = 0 =>
                         registry'.species[s] = registry.species[s]
       /\ probe'.op = "assignSpecies" /\ nextCreatureId' # nextCreatureId =>
              LET sid == registry'.creatureSpecies[probe'.id] IN
              /\ sid \in DOMAIN registry.species =>
                     registry.species[sid].population > 0
              /\ activeWithin(registry, probe'.traits) = {} =>
                     /\ sid = Len(registry.species) + 1
                     /\ registry'.species[sid].totalBirths = 1
      ]_vars

\* A creature within the threshold of an extinct prototype has founded a new
\* species, and the extinct species is still in the registry.
ExtinctNotRevived ==
    /\ probe.op = "assignSpecies"
    /\ \E s \in DOMAIN registry.species :
          /\ registry.species[s].population = 0
          /\ registry.species[s].totalBirths > 0
          /\ geneticDistance(probe.traits, registry.species[s].prototypeTraits)
                 < ThresholdSum
          /\ registry.creatureSpecies[probe.id] > s
          /\ registry.species[registry.creatureSpecies[probe.id]].totalBirths = 1

(***************************************************************************)
(* getTemperatureAt by itself, with the geometry of the zones.  Centres and *)
(* points lie on one line of direction (3, 4), so that every distance is a *)
(* whole multiple of 5; temperatures are in degrees and the result is in   *)
(* thousandths of a degree.  probe holds the zones, the global             *)
(* temperature, the point of the last call and its result.                 *)
(***************************************************************************)
MaxZones == 2

\* distance(x1, y1, x2, y2) of utils/math: the Euclidean distance.
distance(x1, y1, x2, y2) ==
    LET n == (x2 - x1) * (x2 - x1) + (y2 - y1) * (y2 - y1)
    IN CHOOSE r \in 0..n : r * r = n

\* The loop without the test dist < zone.radius.
RECURSIVE temperatureLoopEverywhere(_, _, _, _, _)
temperatureLoopEverywhere(zones, i, temp, x, y) ==
    IF i > Len(zones) THEN temp
    ELSE LET zone == zones[i]
             dist == distance(x, y, zone.x, zone.y)
         IN temperatureLoopEverywhere(zones, i + 1,
                temp + zone.temperature * (One - (dist * One) \div zone.radius), x, y)

\* The for loop of getTemperatureAt from zone i on, temp being the sum so far.
RECURSIVE temperatureLoop(_, _, _, _, _)
temperatureLoop(zones, i, temp, x, y) ==
    IF i > Len(zones) THEN temp
    ELSE LET zone == zones[i]
             dist == distance(x, y, zone.x, zone.y)
         IN IF dist < zone.radius
            THEN temperatureLoop(zones, i + 1,
                     temp + zone.temperature * (One - (dist * One) \div zone.radius),
                     x, y)
            ELSE temperatureLoop(zones, i + 1, temp, x, y)

getTemperatureAt(zones, globalTemperature, x, y) ==
    temperatureLoop(zones, 1, globalTemperature * One, x, y)

\* Zone centres, 10 apart, and the points asked about: at distance 0, 5, 10,
\* 15 and 20 of the first centre.
ZoneCentres == {<<100, 100>>, <<106, 108>>}

QueryPoints == {<<100 + 3 * k, 100 + 4 * k>> : k \in -1..4}

InitTemperature ==
    /\ Untouched
    /\ probe = [kind |-> "temperature", zones |-> <<>>, globalTemperature |-> 20,
                called |-> FALSE, x |-> 0, y |-> 0, result |-> 0]

\* addTemperatureZone(x, y, radius, temperature)
TemperatureAddZone ==
    /\ Len(probe.zones) < MaxZones
    /\ \E c \in ZoneCentres, radius \in {5, 10}, temperature \in {30, -30} :
          probe' = [probe EXCEPT
                      !.zones = Append(@, [x |-> c[1], y |-> c[2], radius |-> radius,
                                           temperature |-> temperature]),
                      !.called = FALSE]
    /\ UNCHANGED <<world, registry, nextCreatureId, engine, frames, pc, deltaTime,
                   deaths, history>>

\* clearTemperatureZones()
TemperatureClearZones ==
    /\ probe' = [probe EXCEPT !.zones = <<>>, !.called = FALSE]
    /\ UNCHANGED <<world, registry, nextCreatureId, engine, frames, pc, deltaTime,
                   deaths, history>>

\* world.globalTemperature = t
TemperatureSetGlobal ==
    /\ \E t \in {20, 25} : probe' = [probe EXCEPT !.globalTemperature = t, !.called = FALSE]
    /\ UNCHANGED <<world, registry, nextCreatureId, engine, frames, pc, deltaTime,
                   deaths, history>>

TemperatureQuery ==
    /\ \E p \in QueryPoints :
          probe' = [probe EXCEPT
                      !.called = TRUE, !.x = p[1], !.y = p[2],
                      !.result = getTemperatureAt(probe.zones, probe.globalTemperature,
                                                  p[1], p[2])]
    /\ UNCHANGED <<world, registry, nextCreatureId, engine, frames, pc, deltaTime,
                   deaths, history>>

NextTemperature ==
    \/ TemperatureAddZone \/ TemperatureClearZones \/ TemperatureSetGlobal
    \/ TemperatureQuery

SpecTemperature == InitTemperature /\ [][NextTemperature]_vars

\* The square of the distance from the point of the last call to zone i.
squaredDistance(i) ==
    (probe.zones[i].x - probe.x) * (probe.zones[i].x - probe.x)
        + (probe.zones[i].y - probe.y) * (probe.zones[i].y - probe.y)

\* The zones whose radius strictly contains the point of the last call.
containing ==
    {i \in DOMAIN probe.zones :
        squaredDistance(i) < probe.zones[i].radius * probe.zones[i].radius}

\* C19: getTemperatureAt(x, y) is globalTemperature plus, for every zone
\* whose radius strictly contains the point, delta * (1 - dist / radius):
\* globalTemperature when no zone contains the point (no zones, or the point
\* on or beyond every radius), globalTemperature + delta at the centre of
\* the only zone that contains it.
TemperatureFalloff ==
    probe.called =>
        /\ \A d \in [containing -> 0..10] :
              (\A i \in containing : d[i] * d[i] = squaredDistance(i)) =>
                  probe.result =
                      probe.globalTemperature * One
                          + SumOver(containing,
                                [i \in containing |->
                                    (probe.zones[i].temperature
                                         * (probe.zones[i].radius - d[i]) * One)
                                        \div probe.zones[i].radius])
        /\ containing = {} => probe.result = probe.globalTemperature * One
        /\ \A i \in containing :
              containing = {i} /\ squaredDistance(i) = 0 =>
                  probe.result = (probe.globalTemperature + probe.zones[i].temperature) * One

\* Global temperature 20 and a +30 zone: the last call asked about a point
\* on the radius of the zone and got 20.
OnTheRadius ==
    /\ probe.called
    /\ probe.globalTemperature = 20
    /\ Len(probe.zones) = 1
    /\ probe.zones[1].temperature = 30
    /\ squaredDistance(1) = probe.zones[1].radius * probe.zones[1].radius
    /\ probe.result = 20 * One

(***************************************************************************)
(* updateCreatureBehaviors on a World of one creature: no threat, no prey, *)
(* no mate.  The creature is a grazer, an omnivore or a hunter, holds      *)
(* little or much energy, and the World holds a food item or none and no   *)
(* corpse.  probe holds the creature and the food count as the call found  *)
(* them.  Velocities are not modelled: the state a decision leaves is.     *)
(***************************************************************************)
Forager == HerbivoreVector(500, 300, 500)

\* The energies a lone creature is given: below every hunger threshold, between
\* them, and full.
LoneEnergies == {10, 40, 100}

\* A World of one creature of the given traits and energy and f food items.
Lone(place, traits, energy, f) ==
    LET S0 == [world |-> [NewWorld EXCEPT !.food = [i \in 1..f |-> NewFood]],
               registry |-> EmptyRegistry, nextCreatureId |-> 1, deaths |-> <<>>]
        S1 == pushWithSpecies(S0, place, traits, 0)
    IN [S1 EXCEPT !.world.creatures[1].energy = energy, !.world.totalBirths = 1]

InitBehavior ==
    /\ \E place \in Places, traits \in {Grazer, Forager, Hunter},
          energy \in LoneEnergies, f \in 0..1 :
          LET S == Lone(place, traits, energy, f) IN
          /\ world = S.world
          /\ registry = S.registry
          /\ nextCreatureId = S.nextCreatureId
    /\ engine = [state |-> "stopped", animationFrameId |-> 0]
    /\ frames = {}
    /\ pc = "idle"
    /\ deltaTime = 0
    /\ deaths = <<>>
    /\ history = NoHistory
    /\ probe = [kind |-> "behavior", called |-> FALSE, before |-> world.creatures[1],
                foodCount |-> Len(world.food)]

\* updateCreatureBehaviors(world, deltaTime, world.simulationTime)
BehaviorCall ==
    /\ ~probe.called
    /\ \E dt \in 0..MaxDt : \E S \in updateCreatureBehaviors(Sim, dt) :
          /\ S.nextCreatureId <= MaxCreatureIds + 1
          /\ Install(S)
    /\ probe' = [probe EXCEPT !.called = TRUE]
    /\ history' = [history EXCEPT !.lastOp = "updateCreatureBehaviors"]
    /\ UNCHANGED <<engine, frames, pc, deltaTime>>

SpecBehavior == InitBehavior /\ [][BehaviorCall]_vars

\* C20: a creature of any diet with no threat in range, energy% below its
\* hunger threshold and no food, corpse or prey nearby is left in state
\* seeking_food by the decision of the tick.
HungryCreatureSeeksFood ==
    (/\ probe.called
     /\ isHungry(probe.before)
     /\ probe.foodCount = 0
     /\ world.creatures[1].isAlive)
        => world.creatures[1].state = "seeking_food"

(***************************************************************************)
(* The predation pass of handleCollisions, one attack at a time, on a      *)
(* World of two creatures at one place.  probe holds                       *)
(*   n             - the attacks made so far                               *)
(*   hunter, prey  - the indexes of the last attack                        *)
(*   before        - the creatures as that attack found them               *)
(***************************************************************************)
MaxAttacks == 2

Omnivore ==
    [HerbivoreVector(500, 300, 500) EXCEPT !["aggression"] = 900, !["strength"] = 900]
BigHunter ==
    [HerbivoreVector(800, 900, 500) EXCEPT !["aggression"] = 900, !["strength"] = 900]
StrongGrazer == [HerbivoreVector(100, 600, 100) EXCEPT !["strength"] = 900]

PredationEnergies == {5, 40, 100}

\* creatures[1] is a meat eater, creatures[2] any of the five.
Pair(first, second, e1, e2) ==
    LET S0 == [world |-> NewWorld, registry |-> EmptyRegistry, nextCreatureId |-> 1,
               deaths |-> <<>>]
        S1 == populate(S0, <<first, second>>)
    IN updateSpatialHashes([S1 EXCEPT !.world.creatures[1].energy = e1,
                                      !.world.creatures[2].energy = e2])

InitPredation ==
    /\ \E first \in {Hunter, Omnivore, BigHunter},
          second \in {Grazer, StrongGrazer, Hunter, Omnivore},
          e1 \in PredationEnergies, e2 \in PredationEnergies :
          LET S == Pair(first, second, e1, e2) IN
          /\ world = S.world
          /\ registry = S.registry
          /\ nextCreatureId = S.nextCreatureId
    /\ engine = [state |-> "stopped", animationFrameId |-> 0]
    /\ frames = {}
    /\ pc = "idle"
    /\ deltaTime = 0
    /\ deaths = <<>>
    /\ history = NoHistory
    /\ probe = [kind |-> "predation", n |-> 0, hunter |-> 0, prey |-> 0,
                before |-> world.creatures]

\* One iteration of the predation loop that reaches an attack.
PredationAttack ==
    /\ probe.n < MaxAttacks
    /\ \E i \in DOMAIN world.creatures :
          LET targets == attackTargets(Sim, i) IN
          /\ isHunter(world.creatures[i])
          /\ targets # {}
          /\ Install(hunt(Sim, i))
          /\ probe' = [probe EXCEPT !.n = @ + 1, !.hunter = i,
                          !.prey = CHOOSE j \in targets : \A k \in targets : j <= k,
                          !.before = world.creatures]
    /\ history' = [history EXCEPT !.lastOp = "handleCollisions"]
    /\ UNCHANGED <<engine, frames, pc, deltaTime>>

SpecPredation == InitPredation /\ [][PredationAttack]_vars

\* The energy an attack gave the hunter and the energy it took from the prey
\* (a prey holds no energy below zero to give).
credited == world.creatures[probe.hunter].energy - probe.before[probe.hunter].energy
removed == probe.before[probe.prey].energy - Max(0, world.creatures[probe.prey].energy)

heldBy(creatures) ==
    SeqSum([k \in DOMAIN creatures |->
               IF creatures[k].isAlive THEN creatures[k].energy ELSE 0])

EarlierStates == {"wandering", "hunting", "fleeing"}

Companions == {<<>>, <<Grazer>>, <<Hunter>>}

InitDecision ==
    /\ \E traits \in {Grazer, Forager, Hunter, StrongGrazer}, companion \in Companions,
          earlier \in EarlierStates :
          \E energy \in LoneEnergies \cup {maxEnergy(traits)} :
          LET S0 == [world |-> NewWorld, registry |-> EmptyRegistry,
                     nextCreatureId |-> 1, deaths |-> <<>>]
              S1 == updateSpatialHashes(populate(S0, <<traits>> \o companion))
          IN /\ world = [S1.world EXCEPT !.creatures[1].energy = energy,
                                         !.creatures[1].state = earlier,
                                         !.simulationTime = 9]
             /\ registry = S1.registry
             /\ nextCreatureId = S1.nextCreatureId
    /\ engine = [state |-> "stopped", animationFrameId |-> 0]
    /\ frames = {}
    /\ pc = "idle"
    /\ deltaTime = 0
    /\ deaths = <<>>
    /\ history = NoHistory
    /\ probe = [kind |-> "decision", called |-> FALSE,
                count |-> Len(world.creatures),
                earlier |-> world.creatures[1].state, assigned |-> {}]

\* The first iteration of the for loop of updateCreatureBehaviors.
DecisionCall ==
    /\ ~probe.called
    /\ \E dt \in 0..MaxDt : \E d \in BehaviorDraws(Sim, 1, dt) :
          LET S == behave(Sim, 1, dt, d) IN
          /\ S.nextCreatureId <= MaxCreatureIds + 1
          /\ Install(S)
          /\ probe' = [probe EXCEPT
                          !.called = TRUE,
                          !.assigned =
                              {behave([Sim EXCEPT !.world.creatures[1].state = s],
                                      1, dt, d).world.creatures[1].state :
                                  s \in EarlierStates}]
    /\ history' = [history EXCEPT !.lastOp = "updateCreatureBehaviors"]
    /\ UNCHANGED <<engine, frames, pc, deltaTime>>

SpecDecision == InitDecision /\ [][DecisionCall]_vars

\* C22: every branch of the decision assigns the state, so the state a
\* creature is in after the iteration does not depend on the state an
\* earlier tick left it in.
StateAssignedEachTick ==
    probe.called => Cardinality(probe.assigned) = 1

\* C25: a creature whose size trait is over ASEXUAL_SIZE_THRESHOLD bears no
\* offspring by asexual reproduction: when a creature that is alone in the
\* World has borne one in its decision, its size is at most the threshold.
LargeNeverAsexual ==
    (/\ probe.called
     /\ probe.count = 1
     /\ Len(world.creatures) > 1)
        => world.creatures[1].traits["size"] <= ASEXUAL_SIZE_THRESHOLD

\* The creatures of the World that are alive and have no entry of the
\* creature index.
unindexed ==
    {i \in DOMAIN world.creatures :
        /\ world.creatures[i].isAlive
        /\ ~\E k \in DOMAIN world.creatureHash :
               world.creatureHash[k].id = world.creatures[i].id}

\* C23: when a tick is about to run its emigration step or the behaviour
\* decisions, the creature index holds every creature that is alive in the
\* World at that moment.
IndexHoldsLiveCreatures ==
    pc \in {"processEmigration", "updateCreatureBehaviors"} => unindexed = {}

(***************************************************************************)
(* Creature.canReproduce, reproduceAsexual and reproduceSexual over times  *)
(* that lie within and beyond the cooldowns.  probe holds                  *)
(*   creatures - the two creatures under test                              *)
(*   before    - the same two before the last call                         *)
(*   offspring - the creatures the last call returned                      *)
(*   op, t     - the last call and its currentTime                         *)
(*   calls     - the calls made                                            *)
(***************************************************************************)
MaxReproductions == 2

\* Seconds of simulation time: the cooldown is 0.3 s for the grazer of size
\* 0.5 and 8 s for the hunter of size 0.3.
ReproductionTimes == {0, 1, 2, 9, 10, 17, 18}

InitReproduction ==
    /\ Untouched
    /\ \E traits \in {HerbivoreVector(100, 500, 500), Hunter},
          e1 \in {20, 130}, e2 \in {20, 130}, stress \in {0, 400}, alive \in BOOLEAN :
          LET first == [NewCreature(1, "interior", traits, 0)
                           EXCEPT !.energy = e1, !.hungerStress = stress]
              second == [NewCreature(2, "interior", traits, 0)
                            EXCEPT !.energy = e2, !.isAlive = alive]
          IN probe = [kind |-> "reproduction", creatures |-> <<first, second>>,
                      before |-> <<first, second>>, offspring |-> {}, op |-> "new",
                      t |-> 0, calls |-> 0]

ReproduceAsexual ==
    /\ probe.calls < MaxReproductions
    /\ \E i \in DOMAIN probe.creatures, currentTime \in ReproductionTimes,
          draws \in ProbeMutations :
          LET c == probe.creatures[i]
              offspring == asexualOffspring(c, 3, currentTime, MUTATION_RATE, draws,
                                            c.position)
          IN /\ currentTime >= probe.t
             /\ probe' = [probe EXCEPT
                            !.before = probe.creatures,
                            !.creatures[i] = IF canReproduce(c, currentTime)
                                             THEN asexualParent(c, currentTime) ELSE c,
                            !.offspring = IF canReproduce(c, currentTime)
                                          THEN {offspring} ELSE {},
                            !.op = "reproduceAsexual",
                            !.t = currentTime,
                            !.calls = @ + 1]
    /\ UNCHANGED <<world, registry, nextCreatureId, engine, frames, pc, deltaTime,
                   deaths, history>>

ReproduceSexual ==
    /\ probe.calls < MaxReproductions
    /\ \E i, j \in DOMAIN probe.creatures, currentTime \in ReproductionTimes,
          offspringCount \in 1..MaxOffspringDraw, draws \in ProbeMutations :
          LET c == probe.creatures[i]
              partner == probe.creatures[j]
              both == canReproduce(c, currentTime) /\ canReproduce(partner, currentTime)
              child == sexualOffspring(c, partner, 3, currentTime, MUTATION_RATE,
                                       [k \in TraitNames |-> 800], draws, c.position)
          IN /\ i # j
             /\ currentTime >= probe.t
             /\ offspringCount <= maxOffspring(c, partner)
             /\ probe' = [probe EXCEPT
                            !.before = probe.creatures,
                            !.creatures[i] = IF both
                                             THEN sexualParent(c, currentTime, offspringCount)
                                             ELSE c,
                            !.creatures[j] = IF both
                                             THEN sexualParent(partner, currentTime,
                                                               offspringCount)
                                             ELSE partner,
                            !.offspring = IF both
                                          THEN {[child EXCEPT !.id = @ + n] :
                                                   n \in 0..(offspringCount - 1)}
                                          ELSE {},
                            !.op = "reproduceSexual",
                            !.t = currentTime,
                            !.calls = @ + 1]
    /\ UNCHANGED <<world, registry, nextCreatureId, engine, frames, pc, deltaTime,
                   deaths, history>>

NextReproduction == ReproduceAsexual \/ ReproduceSexual

SpecReproduction == InitReproduction /\ [][NextReproduction]_vars

\* The creatures the last call changed, and the offspring it returned.
reproduced ==
    {probe.creatures[i] : i \in {k \in DOMAIN probe.creatures :
                                    probe.creatures[k] # probe.before[k]}}
        \cup probe.offspring

\* C24: canReproduce(t) holds only for a living creature with energy% at or
\* over its threshold whose lastReproduction lies more than its cooldown
\* back; after a reproduce call that returned offspring, canReproduce is
\* false for each parent and each offspring at every time up to that
\* creature's cooldown later; a call that returned none changed nothing.
CooldownRespected ==
    /\ \A c \in {probe.creatures[i] : i \in DOMAIN probe.creatures} \cup probe.offspring :
          \A t \in ReproductionTimes :
              canReproduce(c, t) =>
                  /\ c.isAlive
                  /\ c.energy * One >= getReproductionThreshold(c.traits) * maxEnergy(c.traits)
                  /\ (t - c.lastReproduction) * One > getReproductionCooldown(c.traits)
    /\ probe.op # "new" =>
          IF probe.offspring = {} THEN probe.creatures = probe.before
          ELSE \A c \in reproduced : \A t \in ReproductionTimes :
                   (t - probe.t) * One <= getReproductionCooldown(c.traits)
                       => ~canReproduce(c, t)

\* A hunter reproduced at 9 s: at 17 s it is within its cooldown of 8 s and
\* cannot reproduce, at 18 s the cooldown has passed.
CooldownElapsed ==
    /\ probe.op = "reproduceAsexual"
    /\ probe.t = 9
    /\ probe.offspring # {}
    /\ \E c \in reproduced \ probe.offspring :
          /\ isCarnivore(c.traits)
          /\ ~canReproduce(c, 17)
          /\ ~cooldownPassed(c, 17)
          /\ cooldownPassed(c, 18)

(***************************************************************************)
(* The three passes of handleCollisions, one at a time, on a World of two  *)
(* creatures at one place with food and a corpse.  The geometry is a draw: *)
(* touches[i] says that creature i touches the items or creatures its pass *)
(* looks at.  probe holds                                                  *)
(*   pass    - the pass that ran last ("none" before the first)            *)
(*   before  - the World as that pass found it                             *)
(*   touches - its draw                                                    *)
(***************************************************************************)
CollisionFood == 2
CollisionCorpses == 1

CollisionPasses == <<"none", "food", "corpse", "hunt">>

InitCollision ==
    /\ \E first \in {Grazer, Omnivore, Hunter}, second \in {Grazer, Omnivore, Hunter},
          alive \in BOOLEAN, f \in 0..CollisionFood, k \in 0..CollisionCorpses :
          LET S0 == [world |-> NewWorld, registry |-> EmptyRegistry,
                     nextCreatureId |-> 1, deaths |-> <<>>]
              S1 == populate(S0, <<first, second>>)
              S2 == IF alive THEN S1 ELSE creatureDies(S1, 2, "die")
              S3 == [S2 EXCEPT
                       !.world.creatures[1].energy = 40,
                       !.world.food = [i \in 1..f |-> NewFood],
                       !.world.corpses = [i \in 1..k |-> createCorpse("interior", 50, 0)]]
          IN /\ world = updateSpatialHashes(S3).world
             /\ registry = S3.registry
             /\ nextCreatureId = S3.nextCreatureId
    /\ engine = [state |-> "stopped", animationFrameId |-> 0]
    /\ frames = {}
    /\ pc = "idle"
    /\ deltaTime = 0
    /\ deaths = <<>>
    /\ history = NoHistory
    /\ probe = [kind |-> "collision", pass |-> "none", before |-> world,
                touches |-> [i \in 1..2 |-> FALSE]]

\* The loop of one pass over world.creatures.
CollisionPass ==
    /\ \E n \in 1..3 : \E touches \in [1..2 -> BOOLEAN] :
          /\ probe.pass = CollisionPasses[n]
          /\ Install(collisionPass(Sim, 1, touches, CollisionPasses[n + 1]))
          /\ probe' = [probe EXCEPT !.pass = CollisionPasses[n + 1],
                                    !.before = world, !.touches = touches]
    /\ history' = [history EXCEPT !.lastOp = "handleCollisions"]
    /\ UNCHANGED <<engine, frames, pc, deltaTime>>

SpecCollision == InitCollision /\ [][CollisionPass]_vars

\* The creatures whose energy the last pass raised, and the items it bit.
fed == {i \in DOMAIN world.creatures :
           world.creatures[i].energy > probe.before.creatures[i].energy}
bitten(items, itemsBefore) == {j \in DOMAIN items : items[j] # itemsBefore[j]}

ResetKeepsRunState ==
    [][(/\ history'.lastOp = "reset"
        /\ history.lastOp # "reset"
        /\ engine.state \in {"running", "paused"})
          => /\ Len(world'.creatures) = INITIAL_CREATURE_COUNT
             /\ Len(world'.food) = INITIAL_FOOD_COUNT
             /\ engine'.state = engine.state]_vars

(***************************************************************************)
(* The settings of the control surface and reset() on an engine that is    *)
(* not running.  probe holds                                               *)
(*   speed  - SimulationEngine.speed                                       *)
(*   op     - the last call                                                *)
(*   before - the four settings before it                                  *)
(*   resets - the reset() calls made                                       *)
(***************************************************************************)
MaxResets == 2

\* speed, foodAbundance, mutationRate and randomZonesEnabled as they are.
settings ==
    [speed |-> probe.speed,
     foodAbundance |-> world.foodAbundance,
     mutationRate |-> world.mutationRate,
     randomZonesEnabled |-> world.randomZonesEnabled]

InitControl ==
    /\ Untouched
    /\ probe = [kind |-> "control", speed |-> One, op |-> "new", resets |-> 0,
                before |-> [speed |-> One,
                            foodAbundance |-> NewWorld.foodAbundance,
                            mutationRate |-> NewWorld.mutationRate,
                            randomZonesEnabled |-> NewWorld.randomZonesEnabled]]

ControlSetSpeed ==
    /\ \E speed \in {50, One, 5 * One} :
          probe' = [probe EXCEPT !.speed = setSpeed(Number(speed)).value,
                                 !.op = "setSpeed", !.before = settings]
    /\ UNCHANGED <<world, registry, nextCreatureId, engine, frames, pc, deltaTime,
                   deaths, history>>

ControlSetFoodAbundance ==
    /\ \E multiplier \in {0, One, 2 * One} :
          world' = [world EXCEPT
                      !.foodAbundance = setFoodAbundance(Number(multiplier)).value]
    /\ probe' = [probe EXCEPT !.op = "setFoodAbundance", !.before = settings]
    /\ UNCHANGED <<registry, nextCreatureId, engine, frames, pc, deltaTime, deaths,
                   history>>

ControlSetMutationRate ==
    /\ \E rate \in {0, MUTATION_RATE, 200} :
          world' = [world EXCEPT !.mutationRate = setMutationRate(Number(rate)).value]
    /\ probe' = [probe EXCEPT !.op = "setMutationRate", !.before = settings]
    /\ UNCHANGED <<registry, nextCreatureId, engine, frames, pc, deltaTime, deaths,
                   history>>

ControlSetRandomZonesEnabled ==
    /\ \E enabled \in BOOLEAN : world' = setRandomZonesEnabled(world, enabled)
    /\ probe' = [probe EXCEPT !.op = "setRandomZonesEnabled", !.before = settings]
    /\ UNCHANGED <<registry, nextCreatureId, engine, frames, pc, deltaTime, deaths,
                   history>>

\* reset() with state # 'running': stop(), then new World() and the default
\* temperature; start() is not called.
ControlReset ==
    /\ probe.resets < MaxResets
    /\ engine.state # "running"
    /\ engine' = [state |-> "stopped", animationFrameId |-> 0]
    /\ frames' = {}
    /\ world' = [NewWorld EXCEPT !.globalTemperature = TEMPERATURE_DEFAULT]
    /\ deaths' = <<>>
    /\ probe' = [probe EXCEPT !.op = "reset", !.before = settings, !.resets = @ + 1]
    /\ UNCHANGED <<registry, nextCreatureId, pc, deltaTime, history>>

NextControl ==
    \/ ControlSetSpeed \/ ControlSetFoodAbundance \/ ControlSetMutationRate
    \/ ControlSetRandomZonesEnabled \/ ControlReset

SpecControl == InitControl /\ [][NextControl]_vars

\* C28: reset() keeps the settings chosen before it: the speed of the
\* engine and the foodAbundance, mutationRate and randomZonesEnabled of its
\* new World are those the engine and the old World had.
ResetKeepsSettings ==
    probe.op = "reset" => settings = probe.before

(***************************************************************************)
(* The game loop with pause() called from inside the onUpdate and onRender *)
(* callbacks as well as between frames.  The engine runs on a World with   *)
(* no creature, no food and foodAbundance 0, which the ticks leave as it   *)
(* is, so that the states differ in the engine and its frames only.        *)
(***************************************************************************)
InitCallbacks ==
    /\ world = [NewWorld EXCEPT !.foodAbundance = 0]
    /\ registry = EmptyRegistry
    /\ nextCreatureId = 1
    /\ engine = [state |-> "running", animationFrameId |-> 1]
    /\ frames = {1}
    /\ pc = "idle"
    /\ deltaTime = 0
    /\ deaths = <<>>
    /\ history = Initialized(0)
    /\ probe = NoProbe

\* pause() called by the callback the tick is in; loop() goes on after it.
PauseInCallback ==
    /\ pc \in {"onUpdate", "onRender"}
    /\ engine.state = "running"
    /\ engine' = [state |-> "paused", animationFrameId |-> 0]
    /\ cancelFrame
    /\ history' = [history EXCEPT !.lastOp = "pause"]
    /\ UNCHANGED <<world, registry, nextCreatureId, pc, deltaTime, deaths, probe>>

NextCallbacks ==
    \/ Pause \/ Resume \/ PauseInCallback
    \/ Frame
    \/ UpdateTime \/ SpawnFood \/ SpawnMigrants \/ ProcessEmigration
    \/ SpawnRandomZones \/ DecayTemperatureZones
    \/ UpdateCreatureBehaviors \/ HandleCollisions \/ Cleanup
    \/ OnUpdate \/ OnRender \/ RequestFrame

SpecCallbacks == InitCallbacks /\ [][NextCallbacks]_vars

\* C29: at most one animation-frame callback of the loop is pending at any
\* time, whatever control calls were made between frames or from inside the
\* callbacks.
SingleTickChain == Cardinality(frames) <= 1

(***************************************************************************)
(* The temperature zones of a World over ticks: updateTime,               *)
(* spawnRandomZones and decayTemperatureZones as update() calls them, and  *)
(* the two calls of the control surface that touch the zones.  probe holds *)
(* the last call and the zones before it.                                  *)
(***************************************************************************)
ZoneMaxTime == 5

manualZones(zones) == SelectSeq(zones, LAMBDA z : ~z.isRandom)

InitZones ==
    /\ Untouched
    /\ probe = [kind |-> "zones", op |-> "new", before |-> <<>>]

ZonesCall(op, w) ==
    /\ world' = w
    /\ probe' = [probe EXCEPT !.op = op, !.before = world.temperatureZones]
    /\ UNCHANGED <<registry, nextCreatureId, engine, frames, pc, deltaTime, deaths,
                   history>>

ZonesSetRandomZonesEnabled ==
    \E enabled \in BOOLEAN :
        /\ enabled # world.randomZonesEnabled
        /\ ZonesCall("setRandomZonesEnabled", setRandomZonesEnabled(world, enabled))

ZonesAddTemperatureZone ==
    /\ Len(manualZones(world.temperatureZones)) < MaxZones
    /\ \E temperature \in {30, -30} :
          ZonesCall("addTemperatureZone", addTemperatureZone(world, temperature))

\* The zone steps of one update(dt).
ZonesTick ==
    \E dt \in 0..MaxDt, temperature \in {25, -25} :
        /\ world.simulationTime + dt <= ZoneMaxTime
        /\ world.zoneSpawnAccumulator + dt * TEMP_ZONE_SPAWN_RATE <= MaxAccumulator
        /\ ~world.randomZonesEnabled => temperature = 25
        /\ ZonesCall("update",
                     decayTemperatureZones(
                         spawnRandomZones([world EXCEPT !.simulationTime = @ + dt],
                                          dt, temperature)))

NextZones == ZonesSetRandomZonesEnabled \/ ZonesAddTemperatureZone \/ ZonesTick

SpecZones == InitZones /\ [][NextZones]_vars

\* C30: the World never holds more than TEMP_ZONE_MAX random zones; after
\* the zone steps of a tick no random zone is TEMP_ZONE_LIFETIME old or
\* older, and the zones placed by hand are those that were there before.
RandomZonesCapped ==
    /\ Cardinality(randomZones(world)) <= TEMP_ZONE_MAX
    /\ probe.op = "update" =>
          /\ \A i \in randomZones(world) :
                world.simulationTime - world.temperatureZones[i].createdAt
                    < TEMP_ZONE_LIFETIME
          /\ manualZones(world.temperatureZones) = manualZones(probe.before)

====
